---- MODULE Spec2Model ----
(***************************************************************************)
(* A model of the Express/Mongoose backend of app-pinterest-server.        *)
(*                                                                         *)
(* The state is the document store (one variable per Mongoose model), the  *)
(* state of the database connection, and one record per HTTP request: its  *)
(* position in the route's middleware chain and controller (pc), the       *)
(* request object (req), the controller's local constants (loc) and the    *)
(* response object (res).  Every `await` of a controller is one atomic     *)
(* step: the awaited operation takes effect and the code runs on to the    *)
(* next `await` or to the response.  Requests interleave at these points.  *)
(***************************************************************************)
EXTENDS Integers, Sequences, FiniteSets, TLC

VARIABLES
  User,        \* the User collection, in insertion (natural) order
  Follow,      \* the Follow collection: a bag of <<follower, following>>
  Like,        \* the Like collection: a bag of <<pin, user>>
  Save,        \* the Save collection: a bag of <<pin, user>>
  Pin,         \* the Pin collection, in insertion order
  Board,       \* the Board collection, in insertion order
  Comment,     \* the Comment collection, in insertion (createdAt) order
  dbUp,        \* whether document-store operations currently succeed
  loginBy,     \* which snapshot of loginUser is deployed: "email" or "login"
  pc,          \* per request: where its handling stands
  req,         \* per request: the Express request object
  loc,         \* per request: the controller's local constants
  res,         \* per request: the Express response object
  ctl,         \* history: the controller invoked for the request ("" if none)
  doneBefore,  \* history: the requests already answered when this one arrived
  before,      \* history: the store when the request arrived
  after        \* history: the store when the request was answered

store == <<User, Follow, Like, Save, Pin, Board, Comment>>
hist  == <<ctl, doneBefore, before, after>>
vars  == <<User, Follow, Like, Save, Pin, Board, Comment, dbUp, loginBy,
           pc, req, loc, res, ctl, doneBefore, before, after>>

(***************************************************************************)
(* Bounds and input alphabets.                                             *)
(***************************************************************************)
\* The number of requests of one behaviour; they are numbered as they arrive.
MaxReqs == 4

Reqs == 1..MaxReqs
\* Most specifications serve one request fewer, those of the routes with
\* many kinds of request two fewer, and that of all routes three fewer.
AllButOne == 1..(MaxReqs - 1)
AllButTwo == 1..(MaxReqs - 2)
AllButThree == 1..(MaxReqs - 3)

Emails    == {"a@x.io", "b@x.io"}

\* Strings of the shape validator.js's isEmail accepts, among those the
\* model sends.
EmailShaped == Emails \cup {"c@x.io"}

(***************************************************************************)
(* Libraries: bcrypt and jsonwebtoken.                                     *)
(***************************************************************************)
\* process.env.JWT_SECRET as the deployment sets it.
JWT_SECRET == "s3cr3t"

\* bcrypt.hash(password, 10): a string that is not the password.
bcrypt_hash(password) == "$2b$10$" \o password

\* bcrypt.compare(password, hash)
bcrypt_compare(password, hash) == hash = bcrypt_hash(password)

\* A signature made with another secret than the one it is given.
jwt_sign_otherSecret(userId, secret) == [userId |-> userId, key |-> "other"]

\* jwt.sign({ userId }, secret): the payload and what it was signed with.
jwt_sign(userId, secret) == [userId |-> userId, key |-> secret]

\* jwt.verify(token, secret, cb): cb gets an error unless the signature is
\* the one `secret` gives.
jwt_verify(token, secret) == token.key = secret

\* No `token` cookie on the request, or none set on the response.
NoToken == [userId |-> 0, key |-> ""]

\* A cookie that was not signed with the server's secret.
ForgedToken(userId) == [userId |-> userId, key |-> "forged"]

(***************************************************************************)
(* The document store.                                                     *)
(***************************************************************************)
EmptyBag == <<>>

\* A variant of create for a collection with a unique index on the whole
\* document: an equal document is not inserted again.  (Not the program's;
\* the properties that speak of duplicates are tested against it.)
BagCreate_unique(bag, doc) ==
  IF doc \in DOMAIN bag THEN bag
                        ELSE [d \in DOMAIN bag \cup {doc} |->
                                IF d = doc THEN 1 ELSE bag[d]]

\* Model.create(doc) on a collection kept as a bag: one more copy of doc.
\* No schema declares a unique index, so an equal document is no obstacle.
BagCreate(bag, doc) ==
  IF doc \in DOMAIN bag THEN [bag EXCEPT ![doc] = @ + 1]
                        ELSE [d \in DOMAIN bag \cup {doc} |->
                                IF d = doc THEN 1 ELSE bag[d]]

\* Model.deleteOne(filter): at most one matching document goes.
BagDeleteOne(bag, doc) ==
  IF doc \notin DOMAIN bag THEN bag
  ELSE IF bag[doc] = 1 THEN [d \in DOMAIN bag \ {doc} |-> bag[d]]
  ELSE [bag EXCEPT ![doc] = @ - 1]

\* Model.countDocuments over the documents whose key satisfies the filter.
BagCount(bag, doc) == IF doc \in DOMAIN bag THEN bag[doc] ELSE 0

RECURSIVE SumOver(_, _)
SumOver(bag, keys) ==
  IF keys = {} THEN 0
  ELSE LET k == CHOOSE x \in keys : TRUE
       IN  bag[k] + SumOver(bag, keys \ {k})

\* Model.findOne(filter) / Model.exists(filter): is there a match.
BagExists(bag, doc) == doc \in DOMAIN bag

\* Model.findOne on a collection kept in natural order: the first match,
\* or null.  Null is a document whose _id is 0.
NullDoc == [_id |-> 0]

\* hits: the positions of the documents the filter matches.
FindOne(coll, hits) ==
  IF hits = {} THEN NullDoc
  ELSE coll[CHOOSE i \in hits : \A j \in hits : i <= j]

\* userSchema: displayName, username, email and hashedPassword are required
\* strings; none is declared unique.
userSchemaValid(doc) ==
  \A f \in {"displayName", "username", "email", "hashedPassword"} :
     f \in DOMAIN doc /\ doc[f] # ""

\* A variant that keeps every field.  (Not the program's; the property of
\* the registration response is tested against it.)
detailsWithPassword(user) == user

\* user.toObject() without hashedPassword (the rest pattern of the
\* controllers).
detailsWithoutPassword(user) ==
  [f \in DOMAIN user \ {"hashedPassword"} |-> user[f]]

(***************************************************************************)
(* Requests and responses.                                                 *)
(***************************************************************************)
NoReq == [route |-> "none"]
NoLoc == [none |-> TRUE]
NoBody == [none |-> TRUE]
NoRes == [status |-> 0, body |-> NoBody, cookie |-> NoToken, sent |-> 0]

\* res.cookie('token', token, ...)
cookie(rs, token) == [rs EXCEPT !.cookie = token]

\* responseReturn(res, code, data): res.status(code).json(data)
responseReturn(rs, code, data) ==
  [rs EXCEPT !.status = code, !.body = data, !.sent = @ + 1]

\* What the history variables record of the store: every collection, of
\* User (to which documents are only ever added, at the end) the length.
Snapshot ==
  [users |-> Len(User), Follow |-> Follow, Like |-> Like, Save |-> Save,
   Pin |-> Pin, Board |-> Board, Comment |-> Comment]

NoSnapshot ==
  [users |-> 0, Follow |-> EmptyBag, Like |-> EmptyBag, Save |-> EmptyBag,
   Pin |-> <<>>, Board |-> <<>>, Comment |-> <<>>]

\* body with the fields of extra added.
with(body, extra) ==
  [f \in DOMAIN body \cup DOMAIN extra |-> IF f \in DOMAIN extra THEN extra[f] ELSE body[f]]

\* The request has been answered.
Answered(r) == res[r].sent > 0

\* A request arrives: requests are numbered in arrival order.  `track`
\* says whether the history variables record the arrival (they do for the
\* routes whose claims speak of the order of requests).
Arrive(r, request, track) ==
  /\ pc[r] = "idle"
  /\ \A q \in Reqs : q < r => pc[q] # "idle"
  /\ req' = [req EXCEPT ![r] = request]
  /\ doneBefore' = [doneBefore EXCEPT ![r] =
                      IF track THEN {q \in Reqs : Answered(q)} ELSE {}]
  /\ before' = [before EXCEPT ![r] = Snapshot]

\* The handler answers and returns: the response goes out, with the store
\* as the step leaves it.  (The conjuncts that set the store come first.)
Answer(r, rs) ==
  /\ res' = [res EXCEPT ![r] = rs]
  /\ pc' = [pc EXCEPT ![r] = "done"]
  /\ after' = [after EXCEPT ![r] = Snapshot']

\* A middleware answers: the chain stops and no controller runs.
Reject(r, rs) ==
  /\ Answer(r, rs)
  /\ UNCHANGED ctl

\* The last middleware calls next(): the route's controller is invoked.
Invoke(r, controller) ==
  /\ pc' = [pc EXCEPT ![r] = controller]
  /\ ctl' = [ctl EXCEPT ![r] = controller]
  /\ UNCHANGED <<res, after>>

\* The connection to the database is lost: from now on every
\* document-store operation rejects.
DbDown ==
  /\ dbUp
  /\ dbUp' = FALSE
  /\ UNCHANGED <<store, loginBy, pc, req, loc, res, hist>>

(***************************************************************************)
(* Validation middleware (express-validator).                              *)
(***************************************************************************)
\* .isString(): the field is there and is a string (every value the model
\* sends is one).
isString(body, f) == f \in DOMAIN body

\* .notEmpty()
notEmpty(body, f) == f \in DOMAIN body /\ Len(body[f]) > 0

\* .isEmail()
isEmail(body, f) == f \in DOMAIN body /\ body[f] \in EmailShaped

\* .isLength({ min })
isLength(body, f, min) == f \in DOMAIN body /\ Len(body[f]) >= min

\* The fields of `checks` that fail, in the order the chains are declared:
\* what validationResult(req).array() lists.
validationResult(checks) == SelectSeq(checks, LAMBDA c : ~c.ok)

validateUserRequest(body) ==
  validationResult(<<
    [path |-> "username", ok |-> isString(body, "username") /\ notEmpty(body, "username")],
    [path |-> "email",    ok |-> isEmail(body, "email") /\ notEmpty(body, "email")],
    [path |-> "password", ok |-> isString(body, "password") /\ isLength(body, "password", 6)] >>)

validateLoginRequest(body) ==
  validationResult(<<
    [path |-> "email",    ok |-> isEmail(body, "email") /\ notEmpty(body, "email")],
    [path |-> "password", ok |-> isString(body, "password") /\ notEmpty(body, "password")] >>)

\* A variant of handleValidationErrors that goes on whatever the checks
\* found.  (Not the program's; the validation property is tested against
\* it.)
handleValidationErrors_next(r, errors, controller) == Invoke(r, controller)

\* handleValidationErrors: 400 with the errors, or next().
handleValidationErrors(r, errors, controller) ==
  IF errors # <<>>
    THEN Reject(r, responseReturn(res[r], 400, [errors |-> errors]))
    ELSE Invoke(r, controller)

\* The catch block of a controller: 500 with its message and err.message.
Catch(r, message, err) ==
  /\ UNCHANGED <<store, dbUp, loginBy, req, loc, ctl, doneBefore, before>>
  /\ Answer(r, responseReturn(res[r], 500, [message |-> message, error |-> err]))

(***************************************************************************)
(* POST /users/auth/register: validateUserRequest, registerUser.           *)
(***************************************************************************)
\* The bodies a client posts: well-formed ones (the third shares its email
\* with the first and its username with the second), and one per way of
\* failing a check or the schema.
RegisterBodies ==
  { [username |-> "alice", displayName |-> "Name", email |-> "a@x.io", password |-> "secret1"],
    [username |-> "bob",   displayName |-> "Name", email |-> "b@x.io", password |-> "secret2"],
    [username |-> "bob",   displayName |-> "Name", email |-> "a@x.io", password |-> "secret2"],
    [username |-> "",      displayName |-> "Name", email |-> "a@x.io", password |-> "secret1"],
    [username |-> "alice", displayName |-> "Name", email |-> "nomail", password |-> "secret1"],
    [username |-> "alice", displayName |-> "Name", email |-> "a@x.io", password |-> "short"],
    [username |-> "alice", email |-> "a@x.io", password |-> "secret1"] }

\* The request arrives and runs the route's middleware, which touches
\* nothing but the request and the response.
PostRegisterFrom(r, bodies) ==
  \E body \in bodies :
    /\ Arrive(r, [route |-> "POST /users/auth/register", body |-> body], FALSE)
    /\ UNCHANGED <<store, dbUp, loginBy, loc>>
    /\ handleValidationErrors(r, validateUserRequest(body), "registerUser")

PostRegister(r) == PostRegisterFrom(r, RegisterBodies)

\* The document registerUser hands to User.create: a field the body lacks
\* is undefined and is not set.
newUserDoc(body, hashed) ==
  [f \in ({"username", "displayName", "email"} \cap DOMAIN body)
         \cup {"hashedPassword"} |->
     IF f = "hashedPassword" THEN hashed ELSE body[f]]

\* User.create(doc): the stored document, with its fresh _id.
UserCreate(doc) ==
  [f \in DOMAIN doc \cup {"_id"} |-> IF f = "_id" THEN Len(User) + 1 ELSE doc[f]]

\* registerUser.  `await bcrypt.hash` touches no shared state and is taken
\* together with `await User.create`.
registerUser(r) ==
  /\ pc[r] = "registerUser"
  /\ LET newHashedPassword == bcrypt_hash(req[r].body.password)
         doc  == newUserDoc(req[r].body, newHashedPassword)
         user == UserCreate(doc)
     IN  IF ~dbUp
           THEN Catch(r, "Error al registrar el usuario", "db")
         ELSE IF ~userSchemaValid(doc)
           THEN Catch(r, "Error al registrar el usuario", "User validation failed")
         ELSE /\ User' = Append(User, user)
              /\ UNCHANGED <<Follow, Like, Save, Pin, Board, Comment, dbUp,
                             loginBy, req, loc, ctl, doneBefore, before>>
              /\ Answer(r, responseReturn(
                             cookie(res[r], jwt_sign(user._id, JWT_SECRET)),
                             201, detailsWithoutPassword(user)))

(***************************************************************************)
(* POST /users/auth/login: validateLoginRequest, loginUser.                *)
(***************************************************************************)
\* What a client of the deployed loginUser posts: { email, password } or,
\* for the snapshot that reads `login`, { login, password } with or without
\* an email field.
LoginBodies ==
  IF loginBy = "email"
    THEN { [email |-> "a@x.io", password |-> "secret1"],
           [email |-> "a@x.io", password |-> "secret2"],
           [email |-> "c@x.io", password |-> "secret1"],
           [email |-> "nomail", password |-> "secret1"],
           [email |-> "a@x.io", password |-> ""] }
    ELSE { [login |-> "alice", password |-> "secret1"],
           [email |-> "a@x.io", password |-> "secret1"],
           [email |-> "a@x.io", login |-> "alice",  password |-> "secret1"],
           [email |-> "a@x.io", login |-> "a@x.io", password |-> "secret2"],
           [email |-> "a@x.io", login |-> "carol",  password |-> "secret1"] }

PostLoginFrom(r, bodies) ==
  \E body \in bodies :
    /\ Arrive(r, [route |-> "POST /users/auth/login", body |-> body], FALSE)
    /\ UNCHANGED <<store, dbUp, loginBy, loc>>
    /\ handleValidationErrors(r, validateLoginRequest(body), "loginUser")

PostLogin(r) == PostLoginFrom(r, LoginBodies)

\* The filter loginUser gives User.findOne: { email } in the snapshot that
\* reads req.body.email, { $or: [{ email: login }, { username: login }] } in
\* the one that reads req.body.login.  A field the body lacks is undefined
\* and matches no stored user.
loginFilter(body, user) ==
  IF loginBy = "email"
    THEN "email" \in DOMAIN body /\ user.email = body.email
    ELSE "login" \in DOMAIN body
         /\ (user.email = body.login \/ user.username = body.login)

\* A variant of the response that tells an unknown identifier from a wrong
\* password.  (Not the program's; the property of the 401 responses is
\* tested against it.)
loginResponse_tells(rs, user, isPasswordValid) ==
  IF user = NullDoc
    THEN responseReturn(rs, 404, [message |-> "Usuario no encontrado"])
  ELSE IF ~isPasswordValid
    THEN responseReturn(rs, 401, [message |-> "Credenciales incorrectas"])
  ELSE responseReturn(cookie(rs, jwt_sign(user._id, JWT_SECRET)),
                      200, detailsWithoutPassword(user))

\* What loginUser answers once findOne and compare have returned: 401 with
\* one message when there is no user and when the password is wrong, else
\* the token cookie and the user's details.
loginResponse(rs, user, isPasswordValid) ==
  IF user = NullDoc
    THEN responseReturn(rs, 401, [message |-> "Credenciales incorrectas"])
  ELSE IF ~isPasswordValid
    THEN responseReturn(rs, 401, [message |-> "Credenciales incorrectas"])
  ELSE responseReturn(cookie(rs, jwt_sign(user._id, JWT_SECRET)),
                      200, detailsWithoutPassword(user))

\* loginUser.  `await bcrypt.compare` touches no shared state and is taken
\* together with `await User.findOne`.
loginUser(r) ==
  /\ pc[r] = "loginUser"
  /\ LET user == FindOne(User, {i \in DOMAIN User : loginFilter(req[r].body, User[i])})
         isPasswordValid ==
           user # NullDoc /\ bcrypt_compare(req[r].body.password, user.hashedPassword)
     IN  IF ~dbUp
           THEN Catch(r, "Error al iniciar sesión", "db")
         ELSE /\ loc' = [loc EXCEPT ![r] =
                           [user |-> user._id, isPasswordValid |-> isPasswordValid]]
              /\ UNCHANGED <<store, dbUp, loginBy, req, ctl, doneBefore, before>>
              /\ Answer(r, loginResponse(res[r], user, isPasswordValid))

(***************************************************************************)
(* The log: what the controllers hand to the logger.                       *)
(***************************************************************************)
\* debug(message, data, level): every level is enabled, so the call writes
\* the message with console.log and the data, when there is some, with
\* console.dir at full depth.  A message is kept as the parts of its
\* template literal, in order.
debug(message, data, level) ==
  [level |-> level, message |-> message, data |-> data]

\* What registerUser has written for request r so far: the debug entry with
\* the request body when it is entered, then the info entry with the
\* details it answers with, or the error entry of its catch block.
registerUser_log(r) ==
  IF ctl[r] # "registerUser" THEN <<>>
  ELSE <<debug(<<"Iniciando registro de usuario">>, [body |-> req[r].body], "debug")>>
       \o (IF pc[r] # "done" THEN <<>>
           ELSE IF res[r].status = 201
             THEN <<debug(<<"Usuario registrado con éxito">>, res[r].body, "info")>>
           ELSE <<debug(<<"Error al registrar el usuario">>,
                        [error |-> res[r].body.error], "error")>>)

\* What loginUser has written for request r so far: the debug entry with
\* the request body when it is entered; then, in the snapshot that reads
\* req.body.email, an error entry when no user is found and one when the
\* password does not match (the snapshot that reads req.body.login writes
\* neither); the info entry with the details it answers with; or the error
\* entry of its catch block.
loginUser_log(r) ==
  IF ctl[r] # "loginUser" THEN <<>>
  ELSE <<debug(<<"Iniciando inicio de sesión de usuario">>, [body |-> req[r].body], "debug")>>
       \o (IF pc[r] # "done" THEN <<>>
           ELSE IF res[r].status = 500
             THEN <<debug(<<"Error al iniciar sesión">>,
                          [error |-> res[r].body.error], "error")>>
           ELSE IF res[r].status = 200
             THEN <<debug(<<"Usuario autenticado con éxito">>, res[r].body, "info")>>
           ELSE IF loginBy # "email" THEN <<>>
           ELSE IF loc[r].user = NullDoc._id
             THEN <<debug(<<"Usuario no encontrado con email: ", req[r].body.email>>,
                          NullDoc, "error")>>
           ELSE <<debug(<<"Las credenciales con el email: ", req[r].body.email,
                          " y la contraseña: ", req[r].body.password,
                          " son incorrectas">>, NullDoc, "error")>>)

(***************************************************************************)
(* Auth middleware.                                                        *)
(***************************************************************************)
\* What verifyToken leaves in req: req.userId = decoded.userId when the
\* cookie verifies, and nothing otherwise.
withUserId(request) ==
  IF request.cookies # NoToken /\ jwt_verify(request.cookies, JWT_SECRET)
    THEN [request EXCEPT !.userId = request.cookies.userId]
    ELSE request

\* A variant of verifyToken that does not verify the token it finds.  (Not
\* the program's; the guard property is tested against it.)
verifyToken_unverified(r, token, next) ==
  IF token = NoToken
    THEN Reject(r, responseReturn(res[r], 401, [message |-> "Token no proporcionado"]))
  ELSE next

\* verifyToken: 401 without a token cookie, 403 when jwt.verify gives an
\* error, else next().
verifyToken(r, token, next) ==
  IF token = NoToken
    THEN Reject(r, responseReturn(res[r], 401, [message |-> "Token no proporcionado"]))
  ELSE IF ~jwt_verify(token, JWT_SECRET)
    THEN Reject(r, responseReturn(res[r], 403, [message |-> "Token inválido"]))
  ELSE next

\* The users the seeded specifications start with: two accounts that
\* registered before.
SeedUsers ==
  << [_id |-> 1, username |-> "alice", displayName |-> "Name",
      email |-> "a@x.io", hashedPassword |-> bcrypt_hash("secret1")],
     [_id |-> 2, username |-> "bob", displayName |-> "Name",
      email |-> "b@x.io", hashedPassword |-> bcrypt_hash("secret2")] >>

\* The token cookie the server issued to a seeded user when it registered.
TokenOf(userId) == jwt_sign(userId, JWT_SECRET)

(***************************************************************************)
(* POST /users/follow/:username: verifyToken, followUser.                  *)
(***************************************************************************)
\* The follow requests clients send: each seeded user following the other,
\* a user following itself, an unknown username, and requests without a
\* token or with a forged one.
FollowRequests ==
  { [cookies |-> TokenOf(1),     username |-> "bob"],
    [cookies |-> TokenOf(2),     username |-> "alice"],
    [cookies |-> TokenOf(1),     username |-> "alice"],
    [cookies |-> TokenOf(1),     username |-> "carol"],
    [cookies |-> NoToken,        username |-> "bob"],
    [cookies |-> ForgedToken(1), username |-> "bob"] }

PostFollow(r) ==
  \E c \in FollowRequests :
    LET request == [route |-> "POST /users/follow/:username", cookies |-> c.cookies,
                    params |-> [username |-> c.username], userId |-> 0]
    IN  /\ Arrive(r, withUserId(request), TRUE)
        /\ UNCHANGED <<store, dbUp, loginBy, loc>>
        /\ verifyToken(r, c.cookies, Invoke(r, "followUser"))

\* followUser up to and including `await User.findOne({ username })`.
followUser(r) ==
  /\ pc[r] = "followUser"
  /\ LET userToFollow ==
           FindOne(User, {i \in DOMAIN User : User[i].username = req[r].params.username})
     IN  IF ~dbUp
           THEN Catch(r, "Error al seguir al usuario", "db")
         ELSE IF userToFollow = NullDoc
           THEN /\ UNCHANGED <<store, dbUp, loginBy, req, loc, ctl, doneBefore, before>>
                /\ Answer(r, responseReturn(res[r], 404,
                     [message |-> "No se encontró un usuario con el nombre de usuario: "
                                    \o req[r].params.username]))
         ELSE /\ loc' = [loc EXCEPT ![r] = [userToFollow |-> userToFollow._id]]
              /\ pc' = [pc EXCEPT ![r] = "followUser_exists"]
              /\ UNCHANGED <<store, dbUp, loginBy, req, res, hist>>

\* `await Follow.exists({ follower, following })`
followUser_exists(r) ==
  /\ pc[r] = "followUser_exists"
  /\ IF ~dbUp
       THEN Catch(r, "Error al seguir al usuario", "db")
       ELSE /\ loc' = [loc EXCEPT ![r] =
                 [userToFollow |-> @.userToFollow,
                  existingFollow |->
                     BagExists(Follow, <<req[r].userId, @.userToFollow>>)]]
            /\ pc' = [pc EXCEPT ![r] = "followUser_toggle"]
            /\ UNCHANGED <<store, dbUp, loginBy, req, res, hist>>

\* A variant of the branch that never deletes.  (Not the program's; the
\* unfollow property is tested against it.)
followToggle_noDelete(follows, existingFollow, follower, following) ==
  IF existingFollow
    THEN follows
    ELSE BagCreate(follows, <<follower, following>>)

\* The branch followUser takes on existingFollow: Follow.deleteOne or
\* Follow.create with the same follower and following.
followToggle(follows, existingFollow, follower, following) ==
  IF existingFollow
    THEN BagDeleteOne(follows, <<follower, following>>)
    ELSE BagCreate(follows, <<follower, following>>)

\* `await Follow.deleteOne(...)` or `await Follow.create(...)`, and the
\* answer.
followUser_toggle(r) ==
  /\ pc[r] = "followUser_toggle"
  /\ IF ~dbUp
       THEN Catch(r, "Error al seguir al usuario", "db")
       ELSE /\ Follow' = followToggle(Follow, loc[r].existingFollow,
                                      req[r].userId, loc[r].userToFollow)
            /\ UNCHANGED <<User, Like, Save, Pin, Board, Comment, dbUp, loginBy,
                           req, loc, ctl, doneBefore, before>>
            /\ Answer(r, responseReturn(res[r], 200, [message |-> "Satisfactorio"]))

\* Follow.countDocuments({ following: user._id }), as getUser reports it.
followerCount(follows, userId) ==
  SumOver(follows, {k \in DOMAIN follows : k[2] = userId})

\* Follow.countDocuments({ follower: user._id }), as getUser reports it.
followingCount(follows, userId) ==
  SumOver(follows, {k \in DOMAIN follows : k[1] = userId})

(***************************************************************************)
(* POST /pins/interact/:id: verifyToken, interact.                         *)
(***************************************************************************)
\* The interact requests clients send: the pin id (interact does not look
\* the pin up), the token cookie, and a body with a type or without one.
InteractRequests ==
  { [cookies |-> TokenOf(1),     id |-> 1, body |-> [type |-> "like"]],
    [cookies |-> TokenOf(1),     id |-> 1, body |-> [type |-> "save"]],
    [cookies |-> TokenOf(1),     id |-> 1, body |-> [type |-> "share"]],
    [cookies |-> TokenOf(1),     id |-> 1, body |-> [none |-> TRUE]],
    [cookies |-> TokenOf(2),     id |-> 1, body |-> [type |-> "like"]],
    [cookies |-> TokenOf(1),     id |-> 2, body |-> [type |-> "like"]],
    [cookies |-> NoToken,        id |-> 1, body |-> [type |-> "like"]],
    [cookies |-> ForgedToken(1), id |-> 1, body |-> [type |-> "like"]] }

\* Those of them on pin 1 that carry a token that verifies, and among these
\* the likes and saves.
ToggleRequests ==
  {c \in InteractRequests : c.id = 1 /\ c.cookies \in {TokenOf(1), TokenOf(2)}}
Pin1Requests ==
  {c \in ToggleRequests : c.body \in {[type |-> "like"], [type |-> "save"]}}

PostInteractFrom(r, requests) ==
  \E c \in requests :
    LET request == [route |-> "POST /pins/interact/:id", cookies |-> c.cookies,
                    params |-> [id |-> c.id], body |-> c.body, userId |-> 0]
    IN  /\ Arrive(r, withUserId(request), TRUE)
        /\ UNCHANGED <<store, dbUp, loginBy, loc>>
        /\ verifyToken(r, c.cookies, Invoke(r, "interact"))

PostInteract(r) == PostInteractFrom(r, InteractRequests)

\* A test that takes every type but 'save' for a like.
isLikeType_notSave(body) == ~("type" \in DOMAIN body /\ body.type = "save")

\* `type === 'like'`: req.body.type is undefined when the body has none.
isLikeType(body) == "type" \in DOMAIN body /\ body.type = "like"

\* interact up to and including `await Like.findOne(...)` or
\* `await Save.findOne(...)`.
interact(r) ==
  /\ pc[r] = "interact"
  /\ LET doc == <<req[r].params.id, req[r].userId>>
     IN  IF ~dbUp
           THEN Catch(r, "Error al interactuar con el pin", "db")
           ELSE /\ loc' = [loc EXCEPT ![r] =
                     IF isLikeType(req[r].body)
                       THEN [isLiked |-> BagExists(Like, doc)]
                       ELSE [isSaved |-> BagExists(Save, doc)]]
                /\ pc' = [pc EXCEPT ![r] = "interact_toggle"]
                /\ UNCHANGED <<store, dbUp, loginBy, req, res, hist>>

\* The branch interact takes on what findOne gave: deleteOne or create with
\* the same pin and user.
interactToggle(coll, found, pin, user) ==
  IF found THEN BagDeleteOne(coll, <<pin, user>>)
           ELSE BagCreate(coll, <<pin, user>>)

\* `await Model.deleteOne(...)` or `await Model.create(...)`, and the answer.
interact_toggle(r) ==
  /\ pc[r] = "interact_toggle"
  /\ IF ~dbUp
       THEN Catch(r, "Error al interactuar con el pin", "db")
       ELSE /\ IF isLikeType(req[r].body)
                 THEN /\ Like' = interactToggle(Like, loc[r].isLiked,
                                                req[r].params.id, req[r].userId)
                      /\ UNCHANGED Save
                 ELSE /\ Save' = interactToggle(Save, loc[r].isSaved,
                                                req[r].params.id, req[r].userId)
                      /\ UNCHANGED Like
            /\ UNCHANGED <<User, Follow, Pin, Board, Comment, dbUp, loginBy,
                           req, loc, ctl, doneBefore, before>>
            /\ Answer(r, responseReturn(res[r], 200, [message |-> "Interacción exitosa"]))

(***************************************************************************)
(* GET /users/:username: validateGetUserParams, getUser.                   *)
(***************************************************************************)
\* validateGetUserParams: the chain on param('username').  The array does
\* not end with handleValidationErrors, so what the chain finds is recorded
\* in the request and the chain goes on to the controller either way.
validateGetUserParams(params) ==
  validationResult(<<
    [path |-> "username", ok |-> isString(params, "username") /\ notEmpty(params, "username")] >>)

\* The profile requests clients send.  The router matches /:username only
\* on a non-empty path segment, so the parameter is a non-empty string.
GetUserRequests ==
  { [cookies |-> NoToken,        username |-> "alice"],
    [cookies |-> TokenOf(1),     username |-> "bob"],
    [cookies |-> TokenOf(2),     username |-> "bob"],
    [cookies |-> ForgedToken(1), username |-> "bob"],
    [cookies |-> NoToken,        username |-> "carol"] }

GetUser(r) ==
  \E c \in GetUserRequests :
    LET params == [username |-> c.username]
    IN  /\ Arrive(r, [route |-> "GET /users/:username", cookies |-> c.cookies,
                      params |-> params,
                      validationErrors |-> validateGetUserParams(params)], FALSE)
        /\ UNCHANGED <<store, dbUp, loginBy, loc>>
        /\ Invoke(r, "getUser")

\* getUser up to and including `await User.findOne({ username })`.
getUser(r) ==
  /\ pc[r] = "getUser"
  /\ LET user == FindOne(User, {i \in DOMAIN User : User[i].username = req[r].params.username})
     IN  IF ~dbUp
           THEN Catch(r, "Error al buscar el usuario", "db")
         ELSE IF user = NullDoc
           THEN /\ UNCHANGED <<store, dbUp, loginBy, req, loc, ctl, doneBefore, before>>
                /\ Answer(r, responseReturn(res[r], 404,
                     [message |-> "No se encontró un usuario con el nombre de usuario: "
                                    \o req[r].params.username]))
         ELSE /\ loc' = [loc EXCEPT ![r] = [user |-> user]]
              /\ pc' = [pc EXCEPT ![r] = "getUser_followerCount"]
              /\ UNCHANGED <<store, dbUp, loginBy, req, res, hist>>

\* `await Follow.countDocuments({ following: user._id })`
getUser_followerCount(r) ==
  /\ pc[r] = "getUser_followerCount"
  /\ IF ~dbUp
       THEN Catch(r, "Error al buscar el usuario", "db")
       ELSE /\ loc' = [loc EXCEPT ![r] =
                 [user |-> @.user,
                  followerCount |-> followerCount(Follow, @.user._id)]]
            /\ pc' = [pc EXCEPT ![r] = "getUser_followingCount"]
            /\ UNCHANGED <<store, dbUp, loginBy, req, res, hist>>

\* The profile getUser answers with: the user's details without the hash,
\* spread next to the two counts and isFollowing.
userResponse(l, isFollowing) ==
  LET details == detailsWithoutPassword(l.user)
  IN  [f \in DOMAIN details \cup {"followerCount", "followingCount", "isFollowing"} |->
         IF f = "followerCount" THEN l.followerCount
         ELSE IF f = "followingCount" THEN l.followingCount
         ELSE IF f = "isFollowing" THEN isFollowing
         ELSE details[f]]

\* `await Follow.countDocuments({ follower: user._id })` and the code after
\* it: the answer when there is no token cookie, else jwt.verify with the
\* async callback, which does nothing when it is given an error.
getUser_followingCount(r) ==
  /\ pc[r] = "getUser_followingCount"
  /\ IF ~dbUp
       THEN Catch(r, "Error al buscar el usuario", "db")
       ELSE LET l == [user |-> loc[r].user,
                      followerCount |-> loc[r].followerCount,
                      followingCount |-> followingCount(Follow, loc[r].user._id)]
                token == req[r].cookies
            IN  /\ loc' = [loc EXCEPT ![r] = l]
                /\ UNCHANGED <<store, dbUp, loginBy, req, ctl, doneBefore, before>>
                /\ IF token = NoToken
                     THEN Answer(r, responseReturn(res[r], 200, userResponse(l, FALSE)))
                   ELSE IF ~jwt_verify(token, JWT_SECRET)
                     THEN /\ pc' = [pc EXCEPT ![r] = "returned"]
                          /\ UNCHANGED <<res, after>>
                   ELSE /\ pc' = [pc EXCEPT ![r] = "getUser_isExists"]
                        /\ UNCHANGED <<res, after>>

\* `await Follow.exists(...)` inside the jwt.verify callback and the answer.
\* The callback is an async function nobody awaits: when the operation
\* rejects, the rejection is unhandled and the try/catch of getUser, which
\* has returned, does not see it.
getUser_isExists(r) ==
  /\ pc[r] = "getUser_isExists"
  /\ IF ~dbUp
       THEN /\ pc' = [pc EXCEPT ![r] = "unhandledRejection"]
            /\ UNCHANGED <<store, dbUp, loginBy, req, loc, res, hist>>
       ELSE /\ UNCHANGED <<store, dbUp, loginBy, req, loc, ctl, doneBefore, before>>
            /\ Answer(r, responseReturn(res[r], 200,
                 userResponse(loc[r],
                   BagExists(Follow, <<req[r].cookies.userId, loc[r].user._id>>))))

(***************************************************************************)
(* GET /pins/interaction-check/:id: interactionCheck.                      *)
(***************************************************************************)
\* A count of the Like documents of every pin.
likeCount_allPins(likes, id) == SumOver(likes, DOMAIN likes)

\* Like.countDocuments({ pin: id })
likeCount(likes, id) == SumOver(likes, {k \in DOMAIN likes : k[1] = id})

InteractionCheckRequests ==
  { [cookies |-> NoToken,        id |-> 1],
    [cookies |-> TokenOf(1),     id |-> 1],
    [cookies |-> TokenOf(2),     id |-> 1],
    [cookies |-> ForgedToken(1), id |-> 1],
    [cookies |-> TokenOf(1),     id |-> 2] }

GetInteractionCheckFrom(r, requests, track) ==
  \E c \in requests :
    /\ Arrive(r, [route |-> "GET /pins/interaction-check/:id", cookies |-> c.cookies,
                  params |-> [id |-> c.id]], track)
    /\ UNCHANGED <<store, dbUp, loginBy, loc>>
    /\ Invoke(r, "interactionCheck")

GetInteractionCheck(r) == GetInteractionCheckFrom(r, InteractionCheckRequests, FALSE)

\* What interactionCheck answers with.
interactionResponse(count, isLiked, isSaved) ==
  [likeCount |-> count, isLiked |-> isLiked, isSaved |-> isSaved]

\* interactionCheck up to and including `await Like.countDocuments(...)`, and
\* the code after it: the answer without a token cookie, else jwt.verify
\* with the async callback, which answers at once when it is given an error.
interactionCheck(r) ==
  /\ pc[r] = "interactionCheck"
  /\ IF ~dbUp
       THEN Catch(r, "Error al recuperar pin", "db")
       ELSE LET count == likeCount(Like, req[r].params.id)
                token == req[r].cookies
            IN  /\ loc' = [loc EXCEPT ![r] = [likeCount |-> count]]
                /\ UNCHANGED <<store, dbUp, loginBy, req, ctl, doneBefore, before>>
                /\ IF token = NoToken \/ ~jwt_verify(token, JWT_SECRET)
                     THEN Answer(r, responseReturn(res[r], 200,
                                   interactionResponse(count, FALSE, FALSE)))
                     ELSE /\ pc' = [pc EXCEPT ![r] = "interactionCheck_isLiked"]
                          /\ UNCHANGED <<res, after>>

\* `await Like.findOne({ user, pin })` inside the jwt.verify callback.
interactionCheck_isLiked(r) ==
  /\ pc[r] = "interactionCheck_isLiked"
  /\ IF ~dbUp
       THEN /\ pc' = [pc EXCEPT ![r] = "unhandledRejection"]
            /\ UNCHANGED <<store, dbUp, loginBy, req, loc, res, hist>>
       ELSE /\ loc' = [loc EXCEPT ![r] =
                 [likeCount |-> @.likeCount,
                  isLiked |-> BagExists(Like, <<req[r].params.id, req[r].cookies.userId>>)]]
            /\ pc' = [pc EXCEPT ![r] = "interactionCheck_isSaved"]
            /\ UNCHANGED <<store, dbUp, loginBy, req, res, hist>>

\* `await Save.findOne({ user, pin })` inside the callback, and the answer.
interactionCheck_isSaved(r) ==
  /\ pc[r] = "interactionCheck_isSaved"
  /\ IF ~dbUp
       THEN /\ pc' = [pc EXCEPT ![r] = "unhandledRejection"]
            /\ UNCHANGED <<store, dbUp, loginBy, req, loc, res, hist>>
       ELSE /\ UNCHANGED <<store, dbUp, loginBy, req, loc, ctl, doneBefore, before>>
            /\ Answer(r, responseReturn(res[r], 200,
                 interactionResponse(loc[r].likeCount, loc[r].isLiked,
                   BagExists(Save, <<req[r].params.id, req[r].cookies.userId>>))))

(***************************************************************************)
(* POST /comments: verifyToken, addComment.                                *)
(***************************************************************************)
CommentRequests ==
  { [cookies |-> TokenOf(1),     body |-> [description |-> "nice", pin |-> 1]],
    [cookies |-> TokenOf(2),     body |-> [description |-> "wow", pin |-> 1]],
    [cookies |-> TokenOf(1),     body |-> [pin |-> 1]],
    [cookies |-> NoToken,        body |-> [description |-> "nice", pin |-> 1]],
    [cookies |-> ForgedToken(2), body |-> [description |-> "nice", pin |-> 1]] }

\* Comments with a valid token and a description, on two pins.
ValidCommentRequests ==
  { [cookies |-> TokenOf(1), body |-> [description |-> "nice", pin |-> 1]],
    [cookies |-> TokenOf(2), body |-> [description |-> "wow", pin |-> 1]],
    [cookies |-> TokenOf(2), body |-> [description |-> "wow", pin |-> 2]] }

\* A POST /comments request, one of `requests`, arrives and passes through
\* verifyToken.
PostCommentFrom(r, requests) ==
  \E c \in requests :
    LET request == [route |-> "POST /comments", cookies |-> c.cookies,
                    body |-> c.body, userId |-> 0]
    IN  /\ Arrive(r, withUserId(request), TRUE)
        /\ UNCHANGED <<store, dbUp, loginBy, loc>>
        /\ verifyToken(r, c.cookies, Invoke(r, "addComment"))

PostComment(r) == PostCommentFrom(r, CommentRequests)

\* commentSchema: description, pin and user are required.
commentSchemaValid(doc) ==
  /\ "description" \in DOMAIN doc /\ doc.description # ""
  /\ "pin" \in DOMAIN doc
  /\ doc.user # 0

\* The latest createdAt of the collection, 0 when it is empty.
latest(comments) ==
  IF comments = <<>> THEN 0
  ELSE comments[CHOOSE i \in DOMAIN comments :
                  \A j \in DOMAIN comments : comments[j].createdAt <= comments[i].createdAt].createdAt

\* { timestamps: true }: the values createdAt may take for a comment that
\* request r creates now.  The clock counts milliseconds.  It has moved on
\* since every comment that was stored before the behaviour or created by
\* a request answered before r arrived; with a comment created by a request
\* that was in flight together with r, the new one may share the
\* millisecond.
timestamps(r) ==
  LET m == latest(Comment)
      inFlightWith == {q \in Reqs \ (doneBefore[r] \cup {r}) :
                         ctl[q] = "addComment" /\ res[q].status = 201}
      earlier == SelectSeq(Comment, LAMBDA c :
                   \A q \in inFlightWith : res[q].body._id # c._id)
  IN  {t \in {m, m + 1} : t > latest(earlier)}

\* addComment if it kept one comment per user and pin, the new comment
\* taking the place of the user's earlier one on the pin.
addComment_replace(r) ==
  /\ pc[r] = "addComment"
  /\ LET doc == [f \in ({"description", "pin"} \cap DOMAIN req[r].body) \cup {"user"} |->
                   IF f = "user" THEN req[r].userId ELSE req[r].body[f]]
     IN  IF ~dbUp
           THEN Catch(r, "Error al crear comentario", "db")
         ELSE IF ~commentSchemaValid(doc)
           THEN Catch(r, "Error al crear comentario", "Comment validation failed")
         ELSE \E createdAt \in timestamps(r) :
                LET comment == with(doc, [_id |-> Len(Comment) + 1,
                                          createdAt |-> createdAt])
                    others == SelectSeq(Comment, LAMBDA c :
                                c.user # doc.user \/ c.pin # doc.pin)
                IN  /\ Comment' = Append(others, comment)
                    /\ UNCHANGED <<User, Follow, Like, Save, Pin, Board, dbUp, loginBy,
                                   req, loc, ctl, doneBefore, before>>
                    /\ Answer(r, responseReturn(res[r], 201, comment))

\* addComment: `await Comment.create({ description, pin, user: userId })`.
addComment(r) ==
  /\ pc[r] = "addComment"
  /\ LET doc == [f \in ({"description", "pin"} \cap DOMAIN req[r].body) \cup {"user"} |->
                   IF f = "user" THEN req[r].userId ELSE req[r].body[f]]
     IN  IF ~dbUp
           THEN Catch(r, "Error al crear comentario", "db")
         ELSE IF ~commentSchemaValid(doc)
           THEN Catch(r, "Error al crear comentario", "Comment validation failed")
         ELSE \E createdAt \in timestamps(r) :
                LET comment == with(doc, [_id |-> Len(Comment) + 1,
                                          createdAt |-> createdAt])
                IN  /\ Comment' = Append(Comment, comment)
                    /\ UNCHANGED <<User, Follow, Like, Save, Pin, Board, dbUp, loginBy,
                                   req, loc, ctl, doneBefore, before>>
                    /\ Answer(r, responseReturn(res[r], 201, comment))

(***************************************************************************)
(* POST /pins: verifyToken, validatePinRequest, createPin.                 *)
(***************************************************************************)
\* A chain without the check of the media field.
validatePinRequest_withoutMedia(body) ==
  validationResult(<<
    [path |-> "title",       ok |-> isString(body, "title") /\ notEmpty(body, "title")],
    [path |-> "description", ok |-> isString(body, "description") /\ notEmpty(body, "description")] >>)

validatePinRequest(body) ==
  validationResult(<<
    [path |-> "title",       ok |-> isString(body, "title") /\ notEmpty(body, "title")],
    [path |-> "description", ok |-> isString(body, "description") /\ notEmpty(body, "description")],
    [path |-> "media",       ok |-> isString(body, "media") /\ notEmpty(body, "media")] >>)

\* Strings createPin takes apart are sequences of characters.
Original == <<"o", "r", "i", "g", "i", "n", "a", "l">>
Digits == <<"0", "1", "2", "3", "4", "5", "6", "7", "8", "9">>

\* A JSON text: its syntax and the object it denotes.  JSON.parse throws on
\* a syntax error; `x || '{}'` makes a missing field the empty object.
JsonText(value) == [syntax |-> "ok", value |-> value]
Malformed == [syntax |-> "error", value |-> <<>>]
JSON_parse(body, f) == IF f \in DOMAIN body THEN body[f] ELSE JsonText(<<>>)

\* Numbers are fractions <<n, d>>; d = 0 is a value that is not finite (NaN).
NaN == <<0, 0>>
isFinite(x) == x[2] # 0

\* s.split(sep)
RECURSIVE split(_, _)
split(s, sep) ==
  IF \E i \in 1..Len(s) : s[i] = sep
    THEN LET i == CHOOSE i \in 1..Len(s) :
                    s[i] = sep /\ \A j \in 1..(i - 1) : s[j] # sep
         IN  <<SubSeq(s, 1, i - 1)>> \o split(SubSeq(s, i + 1, Len(s)), sep)
    ELSE <<s>>

\* s.trim()
RECURSIVE trim(_)
trim(s) ==
  IF s # <<>> /\ Head(s) = " " THEN trim(Tail(s))
  ELSE IF s # <<>> /\ s[Len(s)] = " " THEN trim(SubSeq(s, 1, Len(s) - 1))
  ELSE s

\* The number a text converts to in a division.
RECURSIVE ToInt(_)
ToInt(chars) ==
  IF chars = <<>> THEN 0
  ELSE 10 * ToInt(SubSeq(chars, 1, Len(chars) - 1))
       + (CHOOSE k \in 0..9 : Digits[k + 1] = chars[Len(chars)])
ToNumber(chars) ==
  IF \A i \in 1..Len(chars) : \E k \in 1..10 : Digits[k] = chars[i]
    THEN <<ToInt(chars), 1>>
    ELSE NaN

\* A division with its operands exchanged.  (Not the program's; the
\* property of the target height is tested against it.)
Div_exchanged(x, y) ==
  IF ~isFinite(x) \/ ~isFinite(y) \/ x[1] = 0 THEN NaN
  ELSE <<y[1] * x[2], y[2] * x[1]>>

\* x / y
Div(x, y) ==
  IF ~isFinite(x) \/ ~isFinite(y) \/ y[1] = 0 THEN NaN
  ELSE <<x[1] * y[2], x[2] * y[1]>>

\* A variant of the comparison that also holds of equal numbers.  (Not the
\* program's; the property of the crop mode is tested against it.)
Greater_orEqual(x, y) ==
  isFinite(x) /\ isFinite(y) /\ x[1] * y[2] >= y[1] * x[2]

\* x > y, false when either is not finite.
Greater(x, y) ==
  isFinite(x) /\ isFinite(y) /\ x[1] * y[2] > y[1] * x[2]

\* Math.round(x) of a fraction that is not negative.
round(x) ==
  IF ~isFinite(x) THEN NaN ELSE <<(2 * x[1] + x[2]) \div (2 * x[2]), 1>>

\* s.substring(1)
substring1(s) == IF s = <<>> THEN <<>> ELSE Tail(s)

\* A field of a parsed object, "undefined" when it is not there.
field(obj, f) == IF f \in DOMAIN obj THEN obj[f] ELSE "undefined"

\* The error the synchronous part of createPin and `await sharp().metadata()`
\* throw on this request, "" when they do not throw.
createPinThrows(request) ==
  LET text == JSON_parse(request.body, "textOptions")
      canvas == JSON_parse(request.body, "canvasOptions")
  IN  IF "media" \notin DOMAIN request.files
        THEN "TypeError: Cannot read properties of undefined"
      ELSE IF text.syntax = "error" \/ canvas.syntax = "error"
        THEN "SyntaxError: Unexpected token"
      ELSE IF ~request.files.media.image
        THEN "Input buffer contains unsupported image format"
      ELSE IF "size" \notin DOMAIN canvas.value
        THEN "TypeError: Cannot read properties of undefined (reading 'split')"
      ELSE IF "backgroundColor" \notin DOMAIN canvas.value
        THEN "TypeError: Cannot read properties of undefined (reading 'substring')"
      ELSE IF "text" \in DOMAIN text.value /\ "color" \notin DOMAIN text.value
        THEN "TypeError: Cannot read properties of undefined (reading 'substring')"
      ELSE ""

\* The pre-transformation createPin asks ImageKit for, from the metadata of
\* the file and the parsed options: w-, h-, the cropping strategy, bg- and
\* the text layer.
transformation(metadata, canvas, text) ==
  LET originalOrientation ==
        IF metadata.width < metadata.height THEN "portrait" ELSE "landscape"
      originalAspectRatio == <<metadata.width, metadata.height>>
      isOriginal == canvas.size = Original
      parts == split(canvas.size, ":")
      clientAspectRatio ==
        IF ~isOriginal
          THEN Div(ToNumber(parts[1]),
                   IF Len(parts) > 1 THEN ToNumber(parts[2]) ELSE NaN)
        ELSE IF field(canvas, "orientation") = originalOrientation
          THEN NaN  \* the orientation name, which is not a number
        ELSE Div(<<1, 1>>, originalAspectRatio)
      width == <<metadata.width, 1>>
      height == Div(width, clientAspectRatio)
      croppingStrategy ==
        IF ~isOriginal
          THEN IF Greater(originalAspectRatio, clientAspectRatio)
                 THEN ",cm-pad_resize" ELSE ""
        ELSE IF originalOrientation = "landscape"
                /\ field(canvas, "orientation") = "portrait"
          THEN ",cm-pad_resize" ELSE ""
      hasText == "text" \in DOMAIN text /\ text.text # ""
  IN  [w |-> width, h |-> height, cm |-> croppingStrategy,
       bg |-> substring1(canvas.backgroundColor),
       text |-> IF hasText
                  THEN [i |-> text.text,
                        fs |-> <<text.fontSize * 21, 10>>,
                        lx |-> round(<<text.left * metadata.width, 375>>),
                        ly |-> round(Div(<<text.top * height[1], height[2]>>,
                                         <<canvas.height, 1>>)),
                        co |-> substring1(text.color)]
                  ELSE <<>>]

\* The file of the multipart form: a 400x300 image.
MediaFile == [name |-> "cat.png", image |-> TRUE, width |-> 400, height |-> 300]
\* A file that is not an image: sharp cannot read its metadata.
TextFile == [name |-> "notes.txt", image |-> FALSE, width |-> 0, height |-> 0]
NoFiles == <<>>

\* (The title is a sequence of characters: getPins searches in it.)
Cat == <<"C", "a", "t">>
PinBody == [title |-> Cat, description |-> "A cat", media |-> "cat.png"]
White == <<"#", "f", "f", "f">>

\* The pin forms clients post: well-formed ones (original size in the other
\* and in the same orientation, a ratio with a text layer and a new board,
\* an existing board with tags), one without canvas options, one without
\* the media field, one without a file, and the two without a valid token.
PinRequests ==
  { [cookies |-> TokenOf(1), files |-> [media |-> MediaFile],
     body |-> with(PinBody, [canvasOptions |-> JsonText(
                [size |-> Original, orientation |-> "portrait",
                 backgroundColor |-> White, height |-> 500])])],
    [cookies |-> TokenOf(2), files |-> [media |-> MediaFile],
     body |-> with(PinBody, [board |-> 1, tags |-> <<"a", ",", " ", "b">>,
                canvasOptions |-> JsonText(
                [size |-> Original, orientation |-> "landscape",
                 backgroundColor |-> White, height |-> 500])])],
    [cookies |-> TokenOf(1), files |-> [media |-> MediaFile],
     body |-> with(PinBody, [newBoard |-> "Trips", link |-> "http://x.io",
                canvasOptions |-> JsonText(
                [size |-> <<"2", ":", "3">>, backgroundColor |-> White, height |-> 500]),
                textOptions |-> JsonText(
                [text |-> "hi", fontSize |-> 10, left |-> 100, top |-> 50,
                 color |-> White])])],
    [cookies |-> TokenOf(1), files |-> [media |-> MediaFile], body |-> PinBody],
    [cookies |-> TokenOf(1), files |-> [media |-> MediaFile],
     body |-> [title |-> Cat, description |-> "A cat"]],
    [cookies |-> TokenOf(1), files |-> NoFiles, body |-> PinBody],
    [cookies |-> NoToken, files |-> [media |-> MediaFile], body |-> PinBody],
    [cookies |-> ForgedToken(1), files |-> [media |-> MediaFile], body |-> PinBody] }

\* A POST /pins request, one of `requests`, arrives and passes through
\* verifyToken and validatePinRequest.
PostPinFrom(r, requests) ==
  \E c \in requests :
    LET request == [route |-> "POST /pins", cookies |-> c.cookies, files |-> c.files,
                    body |-> c.body, userId |-> 0]
    IN  /\ Arrive(r, withUserId(request), FALSE)
        /\ UNCHANGED <<store, dbUp, loginBy, loc>>
        /\ verifyToken(r, c.cookies,
             handleValidationErrors(r, validatePinRequest(c.body), "createPin"))

PostPin(r) == PostPinFrom(r, PinRequests)

\* Pin forms that createPin cannot carry through, each with a newBoard:
\* without canvasOptions, with canvasOptions or textOptions that are not
\* JSON, and with a file that is not an image.
FailingPinRequests ==
  { [cookies |-> TokenOf(1), files |-> [media |-> MediaFile],
     body |-> with(PinBody, [newBoard |-> "Trips"])],
    [cookies |-> TokenOf(1), files |-> [media |-> MediaFile],
     body |-> with(PinBody, [newBoard |-> "Trips", canvasOptions |-> Malformed])],
    [cookies |-> TokenOf(2), files |-> [media |-> MediaFile],
     body |-> with(PinBody, [newBoard |-> "Trips", textOptions |-> Malformed,
                canvasOptions |-> JsonText(
                [size |-> Original, orientation |-> "portrait",
                 backgroundColor |-> White, height |-> 500])])],
    [cookies |-> TokenOf(2), files |-> [media |-> TextFile],
     body |-> with(PinBody, [newBoard |-> "Trips",
                canvasOptions |-> JsonText(
                [size |-> Original, orientation |-> "portrait",
                 backgroundColor |-> White, height |-> 500])])] }

\* Files of the three shapes: MediaFile is wider than high, these are
\* higher than wide and square.
PortraitFile == [name |-> "tree.png", image |-> TRUE, width |-> 300, height |-> 400]
SquareFile == [name |-> "box.png", image |-> TRUE, width |-> 300, height |-> 300]

\* The sizes of the canvas: the original one in either orientation, and
\* the ratios of the portrait and of the landscape file.
CanvasSizes ==
  { [size |-> Original, orientation |-> "portrait"],
    [size |-> Original, orientation |-> "landscape"],
    [size |-> <<"3", ":", "4">>],
    [size |-> <<"4", ":", "3">>] }

\* Every file on every canvas.
CanvasRequests ==
  { [cookies |-> TokenOf(1), files |-> [media |-> media],
     body |-> with(PinBody, [canvasOptions |-> JsonText(
                with(canvas, [backgroundColor |-> White, height |-> 500]))])] :
      media \in {MediaFile, PortraitFile, SquareFile}, canvas \in CanvasSizes }

\* The well-formed forms of PinRequests, which createPin carries through
\* unless the upload or the store fails.
WellFormedPinRequests ==
  {c \in PinRequests :
     /\ c.cookies \in {TokenOf(1), TokenOf(2)}
     /\ "media" \in DOMAIN c.files
     /\ {"media", "canvasOptions"} \subseteq DOMAIN c.body}

\* What imageKit.upload resolves with: the path of the stored file and the
\* size the service reports for it.
UploadResults(media) ==
  { [filePath |-> "/app-pinterest/" \o media.name, width |-> 400, height |-> 300],
    [filePath |-> "/app-pinterest/" \o media.name, width |-> 400, height |-> 600] }

\* `if (newBoard)`: the form has the field and it is not the empty string.
hasNewBoard(body) == "newBoard" \in DOMAIN body /\ body.newBoard # ""

\* The document Pin.create would be given if a supplied board id came before
\* the id of the new board.
newPinDoc_boardIdFirst(request, newBoardId, result) ==
  LET body == request.body
  IN  [user |-> request.userId,
       title |-> body.title,
       description |-> body.description,
       link |-> IF "link" \in DOMAIN body THEN body.link ELSE "",
       board |-> IF "board" \in DOMAIN body THEN body.board ELSE newBoardId,
       tags |-> IF "tags" \in DOMAIN body /\ body.tags # <<>>
                  THEN [i \in DOMAIN split(body.tags, ",") |-> trim(split(body.tags, ",")[i])]
                  ELSE <<>>,
       media |-> result.filePath,
       width |-> result.width,
       height |-> result.height]

\* The document Pin.create is given.
newPinDoc(request, newBoardId, result) ==
  LET body == request.body
  IN  [user |-> request.userId,
       title |-> body.title,
       description |-> body.description,
       link |-> IF "link" \in DOMAIN body THEN body.link ELSE "",
       board |-> IF newBoardId # 0 THEN newBoardId
                 ELSE IF "board" \in DOMAIN body THEN body.board ELSE 0,
       tags |-> IF "tags" \in DOMAIN body /\ body.tags # <<>>
                  THEN [i \in DOMAIN split(body.tags, ",") |-> trim(split(body.tags, ",")[i])]
                  ELSE <<>>,
       media |-> result.filePath,
       width |-> result.width,
       height |-> result.height]

\* `await Pin.create(...)` in the callback of the upload and the 201; a
\* rejection goes to the .catch of the upload chain.
PinCreate(r, newBoardId, result) ==
  IF ~dbUp
    THEN /\ UNCHANGED <<Pin, req, ctl, doneBefore, before>>
         /\ Answer(r, responseReturn(res[r], 500,
              [message |-> "Error al subir la imagen a ImageKit", error |-> "db"]))
    ELSE LET doc == newPinDoc(req[r], newBoardId, result)
             newPin == with(doc, [_id |-> Len(Pin) + 1])
         IN  /\ Pin' = Append(Pin, newPin)
             /\ UNCHANGED <<req, ctl, doneBefore, before>>
             /\ Answer(r, responseReturn(res[r], 201, newPin))

\* A variant of createPin that creates the new board before anything else
\* and then fails.  (Not the program's; the property of failed pin
\* creations is tested against it.)
createPin_boardFirst(r) ==
  /\ pc[r] = "createPin"
  /\ UNCHANGED <<User, Follow, Like, Save, Comment, dbUp, loginBy>>
  /\ Board' = IF hasNewBoard(req[r].body)
                THEN Append(Board, [_id |-> Len(Board) + 1,
                                    title |-> req[r].body.newBoard,
                                    user |-> req[r].userId])
                ELSE Board
  /\ UNCHANGED <<Pin, loc, req, ctl, doneBefore, before>>
  /\ Answer(r, responseReturn(res[r], 500,
       IF createPinThrows(req[r]) # ""
         THEN [message |-> "Error al crear pin", error |-> createPinThrows(req[r])]
         ELSE [message |-> "Error al subir la imagen a ImageKit", error |-> "upload"]))

\* createPin from its start up to the first operation on the store: the
\* options are parsed, the metadata read, the transformation computed, the
\* file uploaded; then Board.create when there is a newBoard, else
\* Pin.create.
createPin(r) ==
  /\ pc[r] = "createPin"
  /\ UNCHANGED <<User, Follow, Like, Save, Comment, dbUp, loginBy>>
  /\ IF createPinThrows(req[r]) # ""
       THEN /\ UNCHANGED <<Pin, Board, loc, req, ctl, doneBefore, before>>
            /\ Answer(r, responseReturn(res[r], 500,
                 [message |-> "Error al crear pin", error |-> createPinThrows(req[r])]))
       ELSE LET media == req[r].files.media
                pre == transformation([width |-> media.width, height |-> media.height],
                                      JSON_parse(req[r].body, "canvasOptions").value,
                                      JSON_parse(req[r].body, "textOptions").value)
            IN  \/ \* the upload rejects
                   /\ loc' = [loc EXCEPT ![r] = [pre |-> pre]]
                   /\ UNCHANGED <<Pin, Board, req, ctl, doneBefore, before>>
                   /\ Answer(r, responseReturn(res[r], 500,
                        [message |-> "Error al subir la imagen a ImageKit",
                         error |-> "upload"]))
                \/ \E result \in UploadResults(media) :
                     /\ loc' = [loc EXCEPT ![r] = [pre |-> pre, result |-> result,
                                                   newBoardId |-> IF hasNewBoard(req[r].body) /\ dbUp
                                                                    THEN Len(Board) + 1 ELSE 0]]
                     /\ IF hasNewBoard(req[r].body)
                          THEN IF ~dbUp
                                 THEN /\ UNCHANGED <<Pin, Board, req, ctl, doneBefore, before>>
                                      /\ Answer(r, responseReturn(res[r], 500,
                                           [message |-> "Error al subir la imagen a ImageKit",
                                            error |-> "db"]))
                                 ELSE /\ Board' = Append(Board,
                                           [_id |-> Len(Board) + 1,
                                            title |-> req[r].body.newBoard,
                                            user |-> req[r].userId])
                                      /\ pc' = [pc EXCEPT ![r] = "createPin_pin"]
                                      /\ UNCHANGED <<Pin, req, res, hist>>
                          ELSE /\ UNCHANGED Board
                               /\ PinCreate(r, 0, result)

\* A variant of the step that takes the new board back when Pin.create
\* fails.  (Not the program's; the property of the board left behind is
\* tested against it.)
createPin_pin_rollback(r) ==
  /\ pc[r] = "createPin_pin"
  /\ UNCHANGED <<User, Follow, Like, Save, Comment, dbUp, loginBy, loc>>
  /\ Board' = IF dbUp THEN Board
                ELSE SelectSeq(Board, LAMBDA b : b._id # loc[r].newBoardId)
  /\ PinCreate(r, loc[r].newBoardId, loc[r].result)

\* Pin.create after Board.create.
createPin_pin(r) ==
  /\ pc[r] = "createPin_pin"
  /\ UNCHANGED <<User, Follow, Like, Save, Comment, Board, dbUp, loginBy, loc>>
  /\ PinCreate(r, loc[r].newBoardId, loc[r].result)

(***************************************************************************)
(* GET /pins/:id: validatePinIdParam, getPin.                              *)
(***************************************************************************)
validatePinIdParam(params) ==
  validationResult(<<
    [path |-> "id", ok |-> isString(params, "id") /\ notEmpty(params, "id")] >>)

\* The ids clients ask for: a pin that may be there and a text that is not
\* an ObjectId.  The router matches /:id only on a non-empty segment.
PinIdParams == {<<"1">>, <<"x">>}

\* The ObjectId a text casts to, NaN when it is not one.
castObjectId(text) == ToNumber(text)

GetPin(r) ==
  \E id \in PinIdParams :
    LET params == [id |-> id]
    IN  /\ Arrive(r, [route |-> "GET /pins/:id", cookies |-> NoToken, params |-> params], FALSE)
        /\ UNCHANGED <<store, dbUp, loginBy, loc>>
        /\ handleValidationErrors(r, validatePinIdParam(params), "getPin")

\* .populate('user', 'username img displayName')
populateUser(pin) ==
  LET user == FindOne(User, {i \in DOMAIN User : User[i]._id = pin.user})
  IN  [pin EXCEPT !.user =
         IF user = NullDoc THEN NullDoc
         ELSE [f \in DOMAIN user \cap {"_id", "username", "img", "displayName"} |-> user[f]]]

\* getPin: `await Pin.findById(id).populate(...)`.
getPin(r) ==
  /\ pc[r] = "getPin"
  /\ LET id == castObjectId(req[r].params.id)
         pin == FindOne(Pin, {i \in DOMAIN Pin : Pin[i]._id = id[1]})
     IN  IF ~dbUp
           THEN Catch(r, "Error al recuperar pin", "db")
         ELSE IF ~isFinite(id)
           THEN Catch(r, "Error al recuperar pin", "Cast to ObjectId failed")
         ELSE /\ UNCHANGED <<store, dbUp, loginBy, req, loc, ctl, doneBefore, before>>
              /\ IF pin = NullDoc
                   THEN Answer(r, responseReturn(res[r], 404, [message |-> "Pin no encontrado"]))
                   ELSE Answer(r, responseReturn(res[r], 200, populateUser(pin)))

(***************************************************************************)
(* GET /pins: getPins.                                                     *)
(***************************************************************************)
limit == 21

\* null in a field that otherwise holds a number.
null == <<>>

\* Number(text): a decimal numeral, with or without a sign, converts to
\* its value, any other text the model sends to NaN.
Number(text) ==
  IF text # <<>> /\ Head(text) = "-"
    THEN LET n == ToNumber(Tail(text))
         IN  IF isFinite(n) /\ Tail(text) # <<>> THEN <<0 - n[1], 1>> ELSE NaN
    ELSE ToNumber(text)

\* const pageNumber = Number(cursor) || 0
pageNumber(query) ==
  LET n == IF "cursor" \in DOMAIN query THEN Number(query.cursor) ELSE NaN
  IN  IF isFinite(n) /\ n[1] # 0 THEN n[1] ELSE 0

\* A query parameter that is there and is not the empty string: what the
\* conditional operators of getPins take for true.
truthy(query, f) == f \in DOMAIN query /\ query[f] # <<>>

UpperCase == <<"A", "B", "C", "D", "E", "F", "G", "H", "I", "J", "K", "L", "M",
               "N", "O", "P", "Q", "R", "S", "T", "U", "V", "W", "X", "Y", "Z">>
LowerCase == <<"a", "b", "c", "d", "e", "f", "g", "h", "i", "j", "k", "l", "m",
               "n", "o", "p", "q", "r", "s", "t", "u", "v", "w", "x", "y", "z">>

\* The text with every capital replaced by its small letter.
toLowerCase(text) ==
  [i \in DOMAIN text |->
     IF \E k \in DOMAIN UpperCase : UpperCase[k] = text[i]
       THEN LowerCase[CHOOSE k \in DOMAIN UpperCase : UpperCase[k] = text[i]]
       ELSE text[i]]

\* { $regex: search, $options: 'i' } for a search without metacharacters:
\* the text contains the search, whatever the case of the letters.
regexMatch(text, search) ==
  \E i \in 1..(Len(text) - Len(search) + 1) :
    toLowerCase(SubSeq(text, i, i + Len(search) - 1)) = toLowerCase(search)

\* A variant of the filter that looks at userId before search.  (Not the
\* program's; the precedence property is tested against it.)
pinFilter_userFirst(query) ==
  IF truthy(query, "userId")
    THEN [by |-> "user", user |-> castObjectId(query.userId)]
  ELSE IF truthy(query, "search")
    THEN [by |-> "search", search |-> query.search]
  ELSE IF truthy(query, "boardId")
    THEN [by |-> "board", board |-> castObjectId(query.boardId)]
  ELSE [by |-> "none"]

\* The filter getPins hands to Pin.find: the first of search, userId and
\* boardId that is truthy decides, else the empty filter.
pinFilter(query) ==
  IF truthy(query, "search")
    THEN [by |-> "search", search |-> query.search]
  ELSE IF truthy(query, "userId")
    THEN [by |-> "user", user |-> castObjectId(query.userId)]
  ELSE IF truthy(query, "boardId")
    THEN [by |-> "board", board |-> castObjectId(query.boardId)]
  ELSE [by |-> "none"]

\* Does the pin match the filter.
pinMatches(pin, filter) ==
  CASE filter.by = "search" ->
         \/ regexMatch(pin.title, filter.search)
         \/ \E i \in DOMAIN pin.tags : pin.tags[i] = filter.search
    [] filter.by = "user"  -> pin.user = filter.user[1]
    [] filter.by = "board" -> pin.board = filter.board[1]
    [] filter.by = "none"  -> TRUE

\* The filter names an id that does not cast to an ObjectId.
castFails(filter) ==
  \/ filter.by = "user" /\ ~isFinite(filter.user)
  \/ filter.by = "board" /\ ~isFinite(filter.board)

\* Pin.find(filter) without a sort: the matching pins in the natural order
\* of the collection, which for a collection that only grows is the order
\* of insertion.
PinFind(pins, filter) == SelectSeq(pins, LAMBDA pin : pinMatches(pin, filter))

\* A variant of the page that skips pageNumber documents instead of
\* pageNumber pages.  (Not the program's; the property of disjoint pages is
\* tested against it.)
page_skipDocuments(found, n) ==
  SubSeq(found, n + 1, IF Len(found) < n + limit THEN Len(found) ELSE n + limit)

\* .limit(limit).skip(pageNumber * limit)
page(found, n) ==
  SubSeq(found, n * limit + 1,
         IF Len(found) < n * limit + limit THEN Len(found) ELSE n * limit + limit)

\* A variant that sees a next page behind every page that is not empty.
\* (Not the program's; the property of nextCursor is tested against it.)
hasNextPage_notEmpty(pins) == Len(pins) > 0

\* const hasNextPage = pins.length === limit
hasNextPage(pins) == Len(pins) = limit

\* The pins the store holds before the requests of a behaviour: pin i is
\* of user 1 when i is even and of user 2 when odd, the pins after the
\* twentieth are on board 1, and titles and tags go round.
Dog == <<"D", "o", "g">>
Cats == <<"c", "a", "t", "s">>
SeedPin(i) ==
  [_id |-> i,
   user |-> 1 + (i % 2),
   title |-> IF i % 3 = 0 THEN Cat ELSE IF i % 3 = 1 THEN Dog ELSE Cats,
   description |-> "A cat",
   link |-> "",
   board |-> IF i > 20 THEN 1 ELSE 0,
   tags |-> IF i % 4 = 1 THEN <<<<"c", "a", "t">>>> ELSE <<>>,
   media |-> "/app-pinterest/cat.png",
   width |-> 400,
   height |-> 300]
SeedPins(n) == [i \in 1..n |-> SeedPin(i)]
SeedBoards == <<[_id |-> 1, title |-> "Trips", user |-> 1]>>

\* How many pins the store may start with: none, or two full pages, of
\* which 21 are of each user, 22 on the board, and 31 match "cat".
PinCounts == {0, 2 * limit}

\* The queries clients send: the pages of every filter, cursors that are
\* no page index, queries with more than one filter, and an id that is
\* none.
GetPinsQueries ==
  { <<>>,
    [cursor |-> <<"1">>],
    [cursor |-> <<"2">>],
    [cursor |-> <<"-", "1">>],
    [search |-> <<"c", "a", "t">>, cursor |-> <<"x">>],
    [userId |-> <<"1">>, boardId |-> <<"1">>],
    [userId |-> <<"1">>, cursor |-> <<"1">>],
    [search |-> <<>>, userId |-> <<>>, boardId |-> <<"1">>],
    [boardId |-> <<"1">>, cursor |-> <<"1">>],
    [search |-> <<"D", "O">>, userId |-> <<"1">>, boardId |-> <<"1">>],
    [userId |-> <<"x">>] }

GetPins(r) ==
  \E query \in GetPinsQueries :
    /\ Arrive(r, [route |-> "GET /pins", cookies |-> NoToken, query |-> query], TRUE)
    /\ UNCHANGED <<store, dbUp, loginBy, loc>>
    /\ Invoke(r, "getPins")

\* getPins: `await Pin.find(...).limit(limit).skip(pageNumber * limit)` and
\* the answer.  The store rejects a negative skip.
getPins(r) ==
  /\ pc[r] = "getPins"
  /\ LET n == pageNumber(req[r].query)
         filter == pinFilter(req[r].query)
         pins == page(PinFind(Pin, filter), n)
     IN  IF ~dbUp
           THEN Catch(r, "Error al recuperar pines", "db")
         ELSE IF castFails(filter)
           THEN Catch(r, "Error al recuperar pines", "Cast to ObjectId failed")
         ELSE IF n < 0
           THEN Catch(r, "Error al recuperar pines", "Skip value must be non-negative")
         ELSE /\ UNCHANGED <<store, dbUp, loginBy, req, loc, ctl, doneBefore, before>>
              /\ Answer(r, responseReturn(res[r], 200,
                   [pins |-> pins,
                    nextCursor |-> IF hasNextPage(pins) THEN <<n + 1, 1>> ELSE null]))

(***************************************************************************)
(* GET /comments/:postId: getPostComments.                                 *)
(***************************************************************************)
\* The orders in which the positions 1..k can be listed.
Orders(k) ==
  {p \in [1..k -> 1..k] : \A i, j \in 1..k : p[i] = p[j] => i = j}

\* A variant of the sort with the oldest first.  (Not the program's; the
\* property of the order of comments is tested against it.)
sortByCreatedAt_ascending(docs) ==
  { [i \in DOMAIN docs |-> docs[p[i]]] :
      p \in {o \in Orders(Len(docs)) :
               \A i \in 1..(Len(docs) - 1) :
                 docs[o[i]].createdAt <= docs[o[i + 1]].createdAt} }

\* .sort({ createdAt: -1 }): the documents with the latest first.  The sort
\* fixes no order among documents of one createdAt: every order that
\* descends is a possible result.
sortByCreatedAt(docs) ==
  { [i \in DOMAIN docs |-> docs[p[i]]] :
      p \in {o \in Orders(Len(docs)) :
               \A i \in 1..(Len(docs) - 1) :
                 docs[o[i]].createdAt >= docs[o[i + 1]].createdAt} }

\* The posts clients ask the comments of: two pins and a text that is not
\* an ObjectId.
PostIdParams == {<<"1">>, <<"2">>, <<"x">>}

GetPostComments(r) ==
  \E postId \in PostIdParams :
    /\ Arrive(r, [route |-> "GET /comments/:postId", cookies |-> NoToken,
                  params |-> [postId |-> postId]], TRUE)
    /\ UNCHANGED <<store, dbUp, loginBy, loc>>
    /\ Invoke(r, "getPostComments")

\* getPostComments: `await Comment.find({ pin: postId }).sort(...)
\* .populate(...)` and the answer.
getPostComments(r) ==
  /\ pc[r] = "getPostComments"
  /\ LET postId == castObjectId(req[r].params.postId)
         found == SelectSeq(Comment, LAMBDA c : c.pin = postId[1])
     IN  IF ~dbUp
           THEN Catch(r, "Error al recuperar comentarios", "db")
         ELSE IF ~isFinite(postId)
           THEN Catch(r, "Error al recuperar comentarios", "Cast to ObjectId failed")
         ELSE \E comments \in sortByCreatedAt(found) :
                /\ UNCHANGED <<store, dbUp, loginBy, req, loc, ctl, doneBefore, before>>
                /\ Answer(r, responseReturn(res[r], 200,
                     [i \in DOMAIN comments |-> populateUser(comments[i])]))

(***************************************************************************)
(* POST /users/auth/logout: logoutUser.                                    *)
(***************************************************************************)
\* The token cookie after res.clearCookie('token'): the client is told to
\* drop it.
ClearedToken == [userId |-> 0, key |-> "cleared"]

\* res.clearCookie('token')
clearCookie(rs) == [rs EXCEPT !.cookie = ClearedToken]

PostLogoutFrom(r, tokens) ==
  \E token \in tokens :
    /\ Arrive(r, [route |-> "POST /users/auth/logout", cookies |-> token], FALSE)
    /\ UNCHANGED <<store, dbUp, loginBy, loc>>
    /\ Invoke(r, "logoutUser")

PostLogout(r) == PostLogoutFrom(r, {NoToken, TokenOf(1)})

\* logoutUser: no operation on the store.
logoutUser(r) ==
  /\ pc[r] = "logoutUser"
  /\ UNCHANGED <<store, dbUp, loginBy, req, loc, ctl, doneBefore, before>>
  /\ Answer(r, responseReturn(clearCookie(res[r]), 200,
       [message |-> "Sesión cerrada con éxito"]))

(***************************************************************************)
(* GET /boards/:userId: getUserBoards.                                     *)
(***************************************************************************)
UserIdParams == {<<"1">>, <<"x">>}

GetUserBoards(r) ==
  \E userId \in UserIdParams :
    /\ Arrive(r, [route |-> "GET /boards/:userId", cookies |-> NoToken,
                  params |-> [userId |-> userId]], FALSE)
    /\ UNCHANGED <<store, dbUp, loginBy, loc>>
    /\ Invoke(r, "getUserBoards")

\* What the request has of board i: "pinCount" while
\* `await Pin.countDocuments` is pending, "firstPin" while `await
\* Pin.findOne` is, "done" after.
NoDetails(boards) ==
  [i \in DOMAIN boards |-> [at |-> "pinCount", pinCount |-> 0, firstPin |-> NullDoc]]

\* { ...board.toObject(), pinCount, firstPin }
boardsWithPinDetails(boards, details) ==
  [i \in DOMAIN boards |->
     with(boards[i], [pinCount |-> details[i].pinCount,
                      firstPin |-> details[i].firstPin])]

\* getUserBoards up to and including `await Board.find({ user: userId })`.
\* Without boards Promise.all has nothing to wait for.
getUserBoards(r) ==
  /\ pc[r] = "getUserBoards"
  /\ LET userId == castObjectId(req[r].params.userId)
         boards == SelectSeq(Board, LAMBDA b : b.user = userId[1])
     IN  IF ~dbUp
           THEN Catch(r, "Error al obtener los tableros del usuario", "db")
         ELSE IF ~isFinite(userId)
           THEN Catch(r, "Error al obtener los tableros del usuario",
                      "Cast to ObjectId failed")
         ELSE IF boards = <<>>
           THEN /\ UNCHANGED <<store, dbUp, loginBy, req, loc, ctl, doneBefore, before>>
                /\ Answer(r, responseReturn(res[r], 200, <<>>))
         ELSE /\ loc' = [loc EXCEPT ![r] = [boards |-> boards,
                                             details |-> NoDetails(boards)]]
              /\ pc' = [pc EXCEPT ![r] = "getUserBoards_details"]
              /\ UNCHANGED <<store, dbUp, loginBy, req, res, hist>>

\* `await Pin.countDocuments({ board: board._id })` of one of the boards:
\* the callbacks of boards.map run side by side.
getUserBoards_pinCount(r) ==
  /\ pc[r] = "getUserBoards_details"
  /\ \E i \in DOMAIN loc[r].boards :
       /\ loc[r].details[i].at = "pinCount"
       /\ IF ~dbUp
            THEN Catch(r, "Error al obtener los tableros del usuario", "db")
            ELSE /\ loc' = [loc EXCEPT ![r].details[i] =
                      [at |-> "firstPin",
                       pinCount |-> Len(SelectSeq(Pin, LAMBDA pin :
                                          pin.board = loc[r].boards[i]._id)),
                       firstPin |-> NullDoc]]
                 /\ UNCHANGED <<store, dbUp, loginBy, pc, req, res, hist>>

\* `await Pin.findOne({ board: board._id })` of one of the boards, and the
\* answer when it was the last.
getUserBoards_firstPin(r) ==
  /\ pc[r] = "getUserBoards_details"
  /\ \E i \in DOMAIN loc[r].boards :
       /\ loc[r].details[i].at = "firstPin"
       /\ IF ~dbUp
            THEN Catch(r, "Error al obtener los tableros del usuario", "db")
            ELSE LET firstPin == FindOne(Pin, {j \in DOMAIN Pin :
                                   Pin[j].board = loc[r].boards[i]._id})
                     details == [loc[r].details EXCEPT ![i] =
                                   [at |-> "done", pinCount |-> @.pinCount,
                                    firstPin |-> firstPin]]
                 IN  IF \A j \in DOMAIN details : details[j].at = "done"
                       THEN /\ loc' = [loc EXCEPT ![r].details = details]
                            /\ UNCHANGED <<store, dbUp, loginBy, req, ctl,
                                           doneBefore, before>>
                            /\ Answer(r, responseReturn(res[r], 200,
                                 boardsWithPinDetails(loc[r].boards, details)))
                       ELSE /\ loc' = [loc EXCEPT ![r].details = details]
                            /\ UNCHANGED <<store, dbUp, loginBy, pc, req, res, hist>>

(***************************************************************************)
(* Specifications.                                                         *)
(***************************************************************************)
InitRequests ==
  /\ pc = [r \in Reqs |-> "idle"]
  /\ req = [r \in Reqs |-> NoReq]
  /\ loc = [r \in Reqs |-> NoLoc]
  /\ res = [r \in Reqs |-> NoRes]
  /\ ctl = [r \in Reqs |-> ""]
  /\ doneBefore = [r \in Reqs |-> {}]
  /\ before = [r \in Reqs |-> NoSnapshot]
  /\ after = [r \in Reqs |-> NoSnapshot]

\* The server has started on an empty database.
InitAuth ==
  /\ User = <<>>
  /\ Follow = EmptyBag /\ Like = EmptyBag /\ Save = EmptyBag
  /\ Pin = <<>> /\ Board = <<>> /\ Comment = <<>>
  /\ dbUp = TRUE
  /\ loginBy \in {"email", "login"}
  /\ InitRequests

NextAuth ==
  \/ DbDown
  \/ \E r \in AllButOne :
       \/ PostRegister(r)
       \/ registerUser(r)
       \/ PostLogin(r)
       \/ loginUser(r)

\* Registration and login.
SpecAuth == InitAuth /\ [][NextAuth]_vars

\* Two users have registered; nothing else is stored.
InitSeeded ==
  /\ User = SeedUsers
  /\ Follow = EmptyBag /\ Like = EmptyBag /\ Save = EmptyBag
  /\ Pin = <<>> /\ Board = <<>> /\ Comment = <<>>
  /\ dbUp = TRUE
  /\ loginBy = "email"
  /\ InitRequests

NextFollow ==
  \/ DbDown
  \/ \E r \in AllButOne :
       \/ PostFollow(r)
       \/ followUser(r)
       \/ followUser_exists(r)
       \/ followUser_toggle(r)

\* The follow toggle.
SpecFollow == InitSeeded /\ [][NextFollow]_vars

NextInteract ==
  \/ DbDown
  \/ \E r \in AllButOne :
       \/ PostInteractFrom(r, ToggleRequests)
       \/ interact(r)
       \/ interact_toggle(r)

\* The like/save toggle.
SpecInteract == InitSeeded /\ [][NextInteract]_vars

NextInteractMore ==
  \/ DbDown
  \/ \E r \in Reqs :
       \/ PostInteractFrom(r, Pin1Requests)
       \/ interact(r)
       \/ interact_toggle(r)

\* The like/save toggle on one pin, with one request more: enough for two
\* requests that race and two that follow one another.
SpecInteractMore == InitSeeded /\ [][NextInteractMore]_vars

NextToggleCheck ==
  \/ DbDown
  \/ \E r \in Reqs :
       \/ PostInteractFrom(r, {c \in Pin1Requests : c.cookies = TokenOf(1)})
       \/ interact(r)
       \/ interact_toggle(r)
       \/ GetInteractionCheckFrom(r, {c \in InteractionCheckRequests :
                                        c.cookies = TokenOf(1) /\ c.id = 1}, TRUE)
       \/ interactionCheck(r)
       \/ interactionCheck_isLiked(r)
       \/ interactionCheck_isSaved(r)

\* One user's likes and saves of one pin, and that user's interaction checks
\* of the pin, four requests in any interleaving.
SpecToggleCheck == InitSeeded /\ [][NextToggleCheck]_vars

\* The guarded routes: POST /pins, POST /pins/interact/:id, POST /comments.
NextGuarded ==
  \/ DbDown
  \/ \E r \in AllButTwo :
       \/ PostPin(r) \/ createPin(r) \/ createPin_pin(r)
       \/ PostInteract(r) \/ interact(r) \/ interact_toggle(r)
       \/ PostComment(r) \/ addComment(r)

SpecGuarded == InitSeeded /\ [][NextGuarded]_vars

\* The routes with a validation chain: register, login, get user, get pin,
\* create pin.
NextValidated ==
  \/ DbDown
  \/ \E r \in AllButTwo :
       \/ PostRegister(r) \/ registerUser(r)
       \/ PostLogin(r) \/ loginUser(r)
       \/ GetUser(r) \/ getUser(r) \/ getUser_followerCount(r)
       \/ getUser_followingCount(r) \/ getUser_isExists(r)
       \/ GetPin(r) \/ getPin(r)
       \/ PostPin(r) \/ createPin(r) \/ createPin_pin(r)

SpecValidated == InitSeeded /\ [][NextValidated]_vars

NextPin ==
  \/ DbDown
  \/ \E r \in AllButTwo :
       \/ PostPinFrom(r, WellFormedPinRequests \cup FailingPinRequests)
       \/ createPin(r)
       \/ createPin_pin(r)

\* Pin creation, by forms that pass the middleware.
SpecPin == InitSeeded /\ [][NextPin]_vars

\* Well-formed pin forms that differ in newBoard and board: both, an empty
\* newBoard with a board id, a newBoard alone, a board id alone, neither.
BoardChoiceRequests ==
  LET canvas == JsonText([size |-> Original, orientation |-> "portrait",
                          backgroundColor |-> White, height |-> 500])
      form(token, extra) ==
        [cookies |-> token, files |-> [media |-> MediaFile],
         body |-> with(with(PinBody, [canvasOptions |-> canvas]), extra)]
  IN  { form(TokenOf(1), [newBoard |-> "Food", board |-> 1]),
        form(TokenOf(1), [newBoard |-> "", board |-> 1]),
        form(TokenOf(2), [newBoard |-> "Food"]),
        form(TokenOf(2), [board |-> 1]),
        form(TokenOf(1), <<>>) }

\* Two users and a board are stored.
InitBoards ==
  /\ User = SeedUsers
  /\ Follow = EmptyBag /\ Like = EmptyBag /\ Save = EmptyBag
  /\ Pin = <<>> /\ Board = SeedBoards /\ Comment = <<>>
  /\ dbUp = TRUE
  /\ loginBy = "email"
  /\ InitRequests

NextPinBoard ==
  \/ DbDown
  \/ \E r \in AllButTwo :
       \/ PostPinFrom(r, BoardChoiceRequests)
       \/ createPin(r)
       \/ createPin_pin(r)

\* Pin creation, by forms that differ in the board they name.
SpecPinBoard == InitBoards /\ [][NextPinBoard]_vars

\* The token cookies the server has set in its answers so far: what the
\* clients of those requests hold.
IssuedTokens ==
  {res[q].cookie : q \in {q \in Reqs : res[q].cookie \notin {NoToken, ClearedToken}}}

\* A client registers or logs in, logs out with the token it was given or
\* without one, and likes pin 1 with a token it was given or a forged one.
NextSession ==
  \/ DbDown
  \/ \E r \in AllButOne :
       \/ PostRegisterFrom(r, {b \in RegisterBodies : b.email = "b@x.io"})
       \/ registerUser(r)
       \/ PostLoginFrom(r, {b \in LoginBodies : b.email = "a@x.io" /\ b.password # ""})
       \/ loginUser(r)
       \/ PostLogoutFrom(r, IssuedTokens \cup {NoToken})
       \/ logoutUser(r)
       \/ PostInteractFrom(r, {[cookies |-> t, id |-> 1, body |-> [type |-> "like"]] :
                                 t \in IssuedTokens \cup {ForgedToken(1)}})
       \/ interact(r)
       \/ interact_toggle(r)

\* Sessions: tokens handed out, logged out and used.
SpecSession == InitSeeded /\ [][NextSession]_vars

\* Pin forms with a token that verifies, an image file and canvas options,
\* that differ in the three fields the chain checks: all there (the media
\* field naming another file than the uploaded one), one of them missing,
\* one of them empty.
FieldRequests ==
  LET canvas == JsonText([size |-> Original, orientation |-> "portrait",
                          backgroundColor |-> White, height |-> 500])
      form(fields) ==
        [cookies |-> TokenOf(1), files |-> [media |-> MediaFile],
         body |-> with(fields, [canvasOptions |-> canvas])]
  IN  { form([title |-> Cat, description |-> "A cat", media |-> "dog.png"]),
        form([title |-> Cat, description |-> "A cat"]),
        form([title |-> Cat, description |-> "A cat", media |-> ""]),
        form([title |-> Cat, media |-> "dog.png"]),
        form([title |-> <<>>, description |-> "A cat", media |-> "dog.png"]),
        form([description |-> "A cat", media |-> "dog.png"]) }

NextFields ==
  \/ DbDown
  \/ \E r \in AllButTwo :
       \/ PostPinFrom(r, FieldRequests)
       \/ createPin(r)

\* Pin creation, by forms that differ in the validated fields.
SpecFields == InitSeeded /\ [][NextFields]_vars

NextCanvas ==
  \E r \in AllButTwo :
    \/ PostPinFrom(r, CanvasRequests)
    \/ createPin(r)

\* Pin creation, by forms that differ in the file and the canvas.
SpecCanvas == InitSeeded /\ [][NextCanvas]_vars

\* Two users, a board and a number of pins are stored.
InitPins ==
  /\ User = SeedUsers
  /\ Follow = EmptyBag /\ Like = EmptyBag /\ Save = EmptyBag
  /\ \E n \in PinCounts : Pin = SeedPins(n)
  /\ Board = SeedBoards /\ Comment = <<>>
  /\ dbUp = TRUE
  /\ loginBy = "email"
  /\ InitRequests

NextPins ==
  \/ DbDown
  \/ \E r \in AllButTwo :
       \/ GetPins(r)
       \/ getPins(r)

\* The pin listing.
SpecPins == InitPins /\ [][NextPins]_vars

\* Every route of the application.
NextApp ==
  \/ DbDown
  \/ \E r \in AllButThree :
       \/ PostRegister(r) \/ registerUser(r)
       \/ PostLogin(r) \/ loginUser(r)
       \/ PostLogout(r) \/ logoutUser(r)
       \/ GetUser(r) \/ getUser(r) \/ getUser_followerCount(r)
       \/ getUser_followingCount(r) \/ getUser_isExists(r)
       \/ PostFollow(r) \/ followUser(r) \/ followUser_exists(r)
       \/ followUser_toggle(r)
       \/ GetPins(r) \/ getPins(r)
       \/ GetPin(r) \/ getPin(r)
       \/ PostPin(r) \/ createPin(r) \/ createPin_pin(r)
       \/ GetInteractionCheck(r) \/ interactionCheck(r)
       \/ interactionCheck_isLiked(r) \/ interactionCheck_isSaved(r)
       \/ PostInteract(r) \/ interact(r) \/ interact_toggle(r)
       \/ GetUserBoards(r) \/ getUserBoards(r)
       \/ getUserBoards_pinCount(r) \/ getUserBoards_firstPin(r)
       \/ GetPostComments(r) \/ getPostComments(r)
       \/ PostComment(r) \/ addComment(r)

\* A comment of bob on pin 1, stored before the requests of a behaviour.
SeedComments ==
  <<[_id |-> 1, description |-> "first", pin |-> 1, user |-> 2, createdAt |-> 1]>>

\* Two users and that comment are stored.
InitComments ==
  /\ User = SeedUsers
  /\ Follow = EmptyBag /\ Like = EmptyBag /\ Save = EmptyBag
  /\ Pin = <<>> /\ Board = <<>>
  /\ Comment = SeedComments
  /\ dbUp = TRUE
  /\ loginBy = "email"
  /\ InitRequests

NextComments ==
  \/ DbDown
  \/ \E r \in AllButOne :
       \/ PostCommentFrom(r, ValidCommentRequests)
       \/ addComment(r)
       \/ GetPostComments(r)
       \/ getPostComments(r)

\* Comments: creation and listing.
SpecComments == InitComments /\ [][NextComments]_vars

\* Two users, alice following bob, her like and save on pin 1, two pins, a
\* board and a comment are stored.
InitApp ==
  /\ User = SeedUsers
  /\ Follow = BagCreate(EmptyBag, <<1, 2>>)
  /\ Like = BagCreate(EmptyBag, <<1, 1>>)
  /\ Save = BagCreate(EmptyBag, <<1, 1>>)
  /\ Pin = SeedPins(2) /\ Board = SeedBoards /\ Comment = SeedComments
  /\ dbUp = TRUE
  /\ loginBy = "email"
  /\ InitRequests

\* The whole application.
SpecApp == InitApp /\ [][NextApp]_vars

\* The routes that read the token cookie themselves.
NextOptional ==
  \/ DbDown
  \/ \E r \in AllButTwo :
       \/ GetUser(r) \/ getUser(r) \/ getUser_followerCount(r)
       \/ getUser_followingCount(r) \/ getUser_isExists(r)
       \/ GetInteractionCheck(r) \/ interactionCheck(r)
       \/ interactionCheck_isLiked(r) \/ interactionCheck_isSaved(r)

\* Two accounts, alice following bob, and alice's like and save on pin 1:
\* what two toggles and a follow leave behind.
InitToggled ==
  /\ User = SeedUsers
  /\ Follow = BagCreate(EmptyBag, <<1, 2>>)
  /\ Like = BagCreate(EmptyBag, <<1, 1>>)
  /\ Save = BagCreate(EmptyBag, <<1, 1>>)
  /\ Pin = <<>> /\ Board = <<>> /\ Comment = <<>>
  /\ dbUp = TRUE
  /\ loginBy = "email"
  /\ InitRequests

SpecOptional == InitToggled /\ [][NextOptional]_vars

\* The routes whose controllers answer from a callback: get user,
\* interaction check, create pin.
NextCallbacks ==
  \/ DbDown
  \/ \E r \in AllButThree :
       \/ GetUser(r) \/ getUser(r) \/ getUser_followerCount(r)
       \/ getUser_followingCount(r) \/ getUser_isExists(r)
       \/ GetInteractionCheck(r) \/ interactionCheck(r)
       \/ interactionCheck_isLiked(r) \/ interactionCheck_isSaved(r)
       \/ PostPinFrom(r, WellFormedPinRequests \cup FailingPinRequests)
       \/ createPin(r) \/ createPin_pin(r)

\* The next operation of the controller that serves request r.
Completes(r) ==
  \/ getUser(r) \/ getUser_followerCount(r)
  \/ getUser_followingCount(r) \/ getUser_isExists(r)
  \/ interactionCheck(r)
  \/ interactionCheck_isLiked(r) \/ interactionCheck_isSaved(r)
  \/ createPin(r) \/ createPin_pin(r)

\* The same routes when every operation on the store and every upload that
\* a controller waits for completes, with a result or with an error.
SpecCallbacks ==
  /\ InitToggled /\ [][NextCallbacks]_vars
  /\ \A r \in AllButThree : WF_vars(Completes(r))

(***************************************************************************)
(* The claims.                                                             *)
(***************************************************************************)
\* The request ran the named controller and was answered 200.
Ok(r, controller) == ctl[r] = controller /\ pc[r] = "done" /\ res[r].status = 200

\* Request s neither overlaps the run of q followed by r nor falls between
\* them: it was answered before q arrived, or arrived after r was answered.
Outside(s, q, r) == s \in doneBefore[q] \/ r \in doneBefore[s]

\* C1: in every reachable state the store holds at most one Follow document
\* per (follower, following) pair.
C1_FollowUnique == \A k \in DOMAIN Follow : Follow[k] <= 1

\* The <<pin, user>> an interact request is about.
InteractPair(r) == <<req[r].params.id, req[r].userId>>

\* An interact request that was answered 200 and whose type is 'like'.
LikeOk(r) == Ok(r, "interact") /\ isLikeType(req[r].body)

\* Two 'like' requests of one user on one pin that ran concurrently from a
\* state without a matching Like, both having seen none, alone on that pair.
LikeRace(q, r) ==
  /\ q # r /\ LikeOk(q) /\ LikeOk(r)
  /\ InteractPair(q) = InteractPair(r)
  /\ q \notin doneBefore[r] /\ r \notin doneBefore[q]
  /\ ~loc[q].isLiked /\ ~loc[r].isLiked
  /\ BagCount(before[q].Like, InteractPair(q)) = 0
  /\ BagCount(before[r].Like, InteractPair(q)) = 0
  /\ \A s \in Reqs \ {q, r} :
       ~(ctl[s] = "interact" /\ isLikeType(req[s].body)
         /\ InteractPair(s) = InteractPair(q))

\* C2: the like toggle is not atomic: when two concurrent 'like' requests of
\* the same user on the same pin both see no Like, both insert, and the
\* store ends with two Like documents for that (pin, user).
C2_BothInsert ==
  \A q, r \in Reqs :
    LikeRace(q, r) => BagCount(Like, InteractPair(q)) = 2

\* C2's case: two such requests have both been answered.
C2_Witness ==
  \E q, r \in Reqs : LikeRace(q, r) /\ BagCount(Like, InteractPair(q)) = 2

\* Two 'like' requests of one user on one pin, r after q has been answered,
\* no other 'like' request on that pair during or between them.
LikeTwice(q, r) ==
  /\ q # r /\ LikeOk(q) /\ LikeOk(r)
  /\ InteractPair(q) = InteractPair(r)
  /\ q \in doneBefore[r]
  /\ \A s \in Reqs \ {q, r} :
       (ctl[s] = "interact" /\ isLikeType(req[s].body)
        /\ InteractPair(s) = InteractPair(q)) => Outside(s, q, r)

\* The pair is liked in a snapshot: a matching Like document is there.
Liked(snapshot, pair) == BagCount(snapshot.Like, pair) > 0

\* C3: two 'like' requests of one user on one pin, one after the other,
\* return the pair to its original liked state, with the Like documents of
\* the pair as they were before the two calls.
C3_LikeTwiceRestores ==
  \A q, r \in Reqs :
    LikeTwice(q, r)
      => /\ Liked(after[q], InteractPair(q)) = ~Liked(before[q], InteractPair(q))
         /\ Liked(after[r], InteractPair(q)) = Liked(before[q], InteractPair(q))
         /\ BagCount(after[r].Like, InteractPair(q))
              = BagCount(before[q].Like, InteractPair(q))

\* Two followUser requests of one follower for one target, the first
\* creating the follow, r after q has been answered, and no other
\* followUser request during or between them.
FollowTwice(q, r) ==
  /\ q # r /\ Ok(q, "followUser") /\ Ok(r, "followUser")
  /\ req[q].userId = req[r].userId
  /\ loc[q].userToFollow = loc[r].userToFollow
  /\ ~loc[q].existingFollow
  /\ q \in doneBefore[r]
  /\ \A s \in Reqs \ {q, r} : ctl[s] = "followUser" => Outside(s, q, r)

\* C4: following then unfollowing leaves the followerCount and
\* followingCount getUser reports, for both users, as they were before.
C4_FollowTwiceRestores ==
  \A q, r \in Reqs :
    FollowTwice(q, r) =>
      \A u \in {req[q].userId, loc[q].userToFollow} :
        /\ followerCount(after[r].Follow, u) = followerCount(before[q].Follow, u)
        /\ followingCount(after[r].Follow, u) = followingCount(before[q].Follow, u)

\* C4's case: a follow and the unfollow after it have both been answered,
\* and in between the counts were one higher.
C4_Witness ==
  \E q, r \in Reqs :
    /\ FollowTwice(q, r)
    /\ followerCount(after[q].Follow, loc[q].userToFollow)
         = followerCount(before[q].Follow, loc[q].userToFollow) + 1

\* The routes behind verifyToken.
GuardedRoutes == {"POST /pins", "POST /pins/interact/:id", "POST /comments"}

\* The token cookie of the request verifies.
TokenVerifies(r) ==
  req[r].cookies # NoToken /\ jwt_verify(req[r].cookies, JWT_SECRET)

\* The request was answered with this status by the middleware: no
\* controller ran for it and the store is as it was when it arrived.
Rejected(r, status) ==
  /\ pc[r] = "done" /\ res[r].status = status
  /\ ctl[r] = ""
  /\ after[r] = before[r]

\* C5: on the routes behind verifyToken the controller runs only for a
\* request whose token cookie verifies, and then with req.userId the userId
\* of the token's payload; a request without a token is answered 401, one
\* whose token fails verification 403, and for both no controller runs and
\* the store is unchanged.
C5_VerifiedOnly ==
  \A r \in Reqs :
    (pc[r] # "idle" /\ req[r].route \in GuardedRoutes) =>
      /\ ctl[r] # "" => (TokenVerifies(r) /\ req[r].userId = req[r].cookies.userId)
      /\ req[r].cookies = NoToken => Rejected(r, 401)
      /\ (req[r].cookies # NoToken /\ ~TokenVerifies(r)) => Rejected(r, 403)

\* C5's case: a request with a forged token has been rejected on a guarded
\* route, and on a guarded route a controller has run for a request whose
\* token verifies and has answered it.
C5_Witness ==
  \E q, r \in Reqs :
    /\ req[q].route \in GuardedRoutes
    /\ req[q].cookies # NoToken /\ ~TokenVerifies(q) /\ Rejected(q, 403)
    /\ req[r].route \in GuardedRoutes
    /\ TokenVerifies(r) /\ ctl[r] # "" /\ pc[r] = "done"
    /\ req[r].userId = req[r].cookies.userId

\* The routes with a validation chain.
ValidatedRoutes ==
  {"POST /users/auth/register", "POST /users/auth/login", "GET /users/:username",
   "GET /pins/:id", "POST /pins"}

\* What the field checks declared for the route of the request find in it.
FieldErrors(r) ==
  CASE req[r].route = "POST /users/auth/register" -> validateUserRequest(req[r].body)
    [] req[r].route = "POST /users/auth/login"    -> validateLoginRequest(req[r].body)
    [] req[r].route = "GET /users/:username"      -> validateGetUserParams(req[r].params)
    [] req[r].route = "GET /pins/:id"             -> validatePinIdParam(req[r].params)
    [] req[r].route = "POST /pins"                -> validatePinRequest(req[r].body)

\* The request got as far as the field checks of its route: on POST /pins
\* they come after verifyToken.
ReachedChecks(r) ==
  /\ pc[r] # "idle" /\ req[r].route \in ValidatedRoutes
  /\ req[r].route = "POST /pins" => TokenVerifies(r)

\* C6: on the routes with a validation chain, a request that fails one of
\* the declared field checks is answered 400 with the list of validation
\* errors, and the controller of the route never runs for it.
C6_InvalidRejected ==
  \A r \in Reqs :
    (ReachedChecks(r) /\ FieldErrors(r) # <<>>) =>
      /\ pc[r] = "done" /\ res[r].status = 400
      /\ res[r].body = [errors |-> FieldErrors(r)]
      /\ ctl[r] = ""

\* C6's case: a registration and a pin form that fail a field check have
\* both been answered.
C6_Witness ==
  \E q, r \in Reqs :
    /\ req[q].route = "POST /users/auth/register"
    /\ FieldErrors(q) # <<>> /\ res[q].status = 400
    /\ req[r].route = "POST /pins" /\ TokenVerifies(r)
    /\ FieldErrors(r) # <<>> /\ res[r].status = 400

\* A registration that was answered 201.
Registered(r) ==
  ctl[r] = "registerUser" /\ pc[r] = "done" /\ res[r].status = 201

\* The document a registration stored: the user whose _id it answered with.
StoredBy(r) == User[res[r].body._id]

\* The fields of a document that hold text (_id is a number).
TextFields(doc) == DOMAIN doc \ {"_id"}

\* C7: for every valid registration payload the stored record does not
\* contain the plaintext password and the response body does not contain
\* the password hash.
C7_NoPasswordLeak ==
  \A r \in Reqs :
    Registered(r) =>
      /\ "password" \notin DOMAIN StoredBy(r)
      /\ \A f \in TextFields(StoredBy(r)) : StoredBy(r)[f] # req[r].body.password
      /\ "hashedPassword" \notin DOMAIN res[r].body
      /\ \A f \in TextFields(res[r].body) :
           res[r].body[f] # StoredBy(r).hashedPassword

\* C7's case: a registration has stored a user, with the hash of the
\* password it sent, and has been answered.
C7_Witness ==
  \E r \in Reqs :
    /\ Registered(r)
    /\ StoredBy(r).hashedPassword = bcrypt_hash(req[r].body.password)

\* loginUser answered the request without an error of the store.
LoginAnswered(r) ==
  ctl[r] = "loginUser" /\ pc[r] = "done" /\ res[r].status # 500

\* The login named no stored user / named one and gave a wrong password.
UnknownIdentifier(r) == LoginAnswered(r) /\ loc[r].user = 0
WrongPassword(r) == LoginAnswered(r) /\ loc[r].user # 0 /\ ~loc[r].isPasswordValid

\* C8: a login with an unknown identifier and a login with a known
\* identifier and a wrong password get the same response: 401, the same
\* message body, no token cookie.
C8_SameRefusal ==
  \A q, r \in Reqs :
    (UnknownIdentifier(q) /\ WrongPassword(r)) =>
      /\ res[q].status = 401 /\ res[r].status = 401
      /\ res[q].body = res[r].body
      /\ res[q].cookie = NoToken /\ res[r].cookie = NoToken

\* C8's case: both kinds of login have been answered.
C8_Witness ==
  \E q, r \in Reqs : UnknownIdentifier(q) /\ WrongPassword(r)

\* The body carries an identifier loginUser accepts for the user, in the
\* field loginUser reads, and the user's password.
CarriesCredentialsOf(body, user) ==
  /\ "password" \in DOMAIN body /\ bcrypt_compare(body.password, user.hashedPassword)
  /\ IF loginBy = "email"
       THEN "email" \in DOMAIN body /\ body.email = user.email
       ELSE "login" \in DOMAIN body /\ body.login \in {user.email, user.username}

\* C9: a login through the route with the accepted identifier and the
\* correct password of a user registered before it is answered 200, with
\* a token cookie for that user's id and that user's details, unless the
\* store fails.
C9_LoginSucceeds ==
  \A r \in Reqs :
    (req[r].route = "POST /users/auth/login" /\ pc[r] = "done" /\ res[r].status # 500) =>
      \A i \in 1..before[r].users :
        LET user == User[i]
        IN  CarriesCredentialsOf(req[r].body, user) =>
              /\ res[r].status = 200
              /\ res[r].cookie = jwt_sign(user._id, JWT_SECRET)
              /\ res[r].body = detailsWithoutPassword(user)

\* The request is inside its controller, at an operation on the store.
AtStoreOperation(r) ==
  pc[r] \notin {"idle", "done", "returned", "unhandledRejection"}

\* C10: whenever an operation on the store that a controller performs
\* fails, at whatever point of the handler, the request is answered with a
\* JSON error body and status 500.
C10_StoreFailureAnswered ==
  [][\A r \in Reqs :
       (AtStoreOperation(r) /\ ~dbUp /\ pc'[r] # pc[r])
         => (pc'[r] = "done" /\ res'[r].status = 500
             /\ DOMAIN res'[r].body = {"message", "error"})]_vars

\* createPin answers the request in this step without a result of the
\* upload: the options did not parse, the metadata could not be read, or
\* the upload was rejected.
FailsBeforeStore(r) ==
  pc[r] = "createPin" /\ pc'[r] = "done" /\ "result" \notin DOMAIN loc'[r]

\* C11: a createPin request that fails while the options are parsed (absent
\* canvasOptions included), while the metadata of the image is read, or in
\* the upload is answered 500 with the message of the error, and it leaves
\* the Board and Pin collections as they were, newBoard or not (it is the
\* request's only step after its arrival, which changes nothing).
C11_FailureLeavesStore ==
  [][\A r \in Reqs :
       FailsBeforeStore(r) =>
         /\ res'[r].status = 500
         /\ DOMAIN res'[r].body = {"message", "error"}
         /\ res'[r].body.error =
              (IF createPinThrows(req[r]) # "" THEN createPinThrows(req[r]) ELSE "upload")
         /\ Pin' = Pin /\ Board' = Board]_vars

\* C11's case: a form with a newBoard and without canvasOptions, and a
\* well-formed one with a newBoard whose upload was rejected, have both been
\* answered 500, and no board is stored.
C11_Witness ==
  \E q, r \in Reqs :
    /\ ctl[q] = "createPin" /\ pc[q] = "done" /\ res[q].status = 500
    /\ "newBoard" \in DOMAIN req[q].body /\ "canvasOptions" \notin DOMAIN req[q].body
    /\ res[q].body.message = "Error al crear pin"
    /\ ctl[r] = "createPin" /\ pc[r] = "done" /\ res[r].status = 500
    /\ "newBoard" \in DOMAIN req[r].body /\ res[r].body.error = "upload"
    /\ Board = <<>> /\ Pin = <<>>

\* C12: when createPin has created the new board and Pin.create then fails,
\* the request is answered 500, no Pin is stored, and the new board stays
\* in the store.
C12_BoardStays ==
  [][\A r \in Reqs :
       (pc[r] = "createPin_pin" /\ ~dbUp /\ pc'[r] # pc[r]) =>
         /\ pc'[r] = "done" /\ res'[r].status = 500
         /\ Pin' = Pin
         /\ \E i \in DOMAIN Board' :
              Board'[i] = [_id |-> loc[r].newBoardId, title |-> req[r].body.newBoard,
                           user |-> req[r].userId]]_vars

\* C12's case: a request whose new board was created has been answered 500,
\* the board is in the store and no pin is.
C12_Witness ==
  \E r \in Reqs :
    /\ ctl[r] = "createPin" /\ pc[r] = "done" /\ res[r].status = 500
    /\ "newBoardId" \in DOMAIN loc[r] /\ loc[r].newBoardId # 0
    /\ \E i \in DOMAIN Board : Board[i]._id = loc[r].newBoardId
    /\ Pin = <<>>

\* getPins answered the request with a page.
ListOk(r) == Ok(r, "getPins")

\* The page index of the request: the cursor when it is a number, else 0.
PageIndex(r) ==
  IF "cursor" \in DOMAIN req[r].query /\ isFinite(Number(req[r].query.cursor))
    THEN Number(req[r].query.cursor)[1]
    ELSE 0

\* The pins that matched the request's filter when it read the store.
Matching(r) == PinFind(after[r].Pin, pinFilter(req[r].query))

\* The _ids of the pins of the response.
PinIds(r) == {res[r].body.pins[i]._id : i \in DOMAIN res[r].body.pins}

\* C13: a page of getPins holds at most 21 pins; its nextCursor is the page
\* index plus one exactly when it holds 21 pins and null otherwise; so when
\* the number of matching pins is a positive multiple of 21, the last page
\* that is not empty reports a nextCursor, and the page it points to is
\* empty with nextCursor null.
C13_NextCursor ==
  \A r \in Reqs :
    ListOk(r) =>
      LET c == PageIndex(r)
          pins == res[r].body.pins
          nextCursor == res[r].body.nextCursor
          total == Len(Matching(r))
          fullPages == total > 0 /\ total % limit = 0
      IN  /\ Len(pins) <= limit
          /\ nextCursor = (IF Len(pins) = limit THEN <<c + 1, 1>> ELSE null)
          /\ (fullPages /\ c = (total \div limit) - 1)
               => (Len(pins) = limit /\ nextCursor = <<c + 1, 1>>)
          /\ (fullPages /\ c = total \div limit)
               => (pins = <<>> /\ nextCursor = null)

\* C13's case: of 42 matching pins the second page has been answered with
\* 21 pins and nextCursor 2, and the third with no pin and nextCursor null.
C13_Witness ==
  \E q, r \in Reqs :
    /\ ListOk(q) /\ ListOk(r)
    /\ Len(Matching(q)) = 2 * limit /\ Len(Matching(r)) = 2 * limit
    /\ PageIndex(q) = 1 /\ Len(res[q].body.pins) = limit
    /\ res[q].body.nextCursor = <<2, 1>>
    /\ PageIndex(r) = 2 /\ res[r].body.pins = <<>> /\ res[r].body.nextCursor = null

\* Page 0 (q) and page 1 (r) of one filter, read from the same store, with
\* more than 21 matching pins.
TwoPages(q, r) ==
  /\ ListOk(q) /\ ListOk(r)
  /\ pinFilter(req[q].query) = pinFilter(req[r].query)
  /\ PageIndex(q) = 0 /\ PageIndex(r) = 1
  /\ after[q].Pin = after[r].Pin
  /\ Len(Matching(q)) > limit

\* C14: when more than 21 pins match a filter and the store is the same
\* for both requests, page 0 and page 1 of that filter share no pin.
C14_PagesDisjoint ==
  \A q, r \in Reqs : TwoPages(q, r) => PinIds(q) \cap PinIds(r) = {}

\* C14's case: page 0 and page 1 of a filter by board have been answered,
\* with 21 pins and with at least one.
C14_Witness ==
  \E q, r \in Reqs :
    /\ TwoPages(q, r)
    /\ pinFilter(req[q].query).by = "board"
    /\ Cardinality(PinIds(q)) = limit /\ PinIds(r) # {}

\* The pins the one filter of the request selects, by the precedence
\* search, userId, boardId, none; a parameter counts when it is there and
\* is not empty.
Selected(pins, query) ==
  IF "search" \in DOMAIN query /\ query.search # <<>>
    THEN SelectSeq(pins, LAMBDA pin :
           \/ regexMatch(pin.title, query.search)
           \/ \E i \in DOMAIN pin.tags : pin.tags[i] = query.search)
  ELSE IF "userId" \in DOMAIN query /\ query.userId # <<>>
    THEN SelectSeq(pins, LAMBDA pin : <<pin.user, 1>> = castObjectId(query.userId))
  ELSE IF "boardId" \in DOMAIN query /\ query.boardId # <<>>
    THEN SelectSeq(pins, LAMBDA pin : <<pin.board, 1>> = castObjectId(query.boardId))
  ELSE pins

\* C15: getPins applies one filter, by the precedence search, userId,
\* boardId, none: the page it answers with is the page of the pins that
\* filter selects, whatever the parameters of lower precedence are.
C15_FilterPrecedence ==
  \A r \in Reqs :
    ListOk(r) =>
      res[r].body.pins = page(Selected(after[r].Pin, req[r].query), PageIndex(r))

\* C15's case: a request with search, userId and boardId has been answered
\* with pins of another user and outside the board, and one with userId
\* and boardId with pins outside the board.
C15_Witness ==
  \E q, r \in Reqs :
    /\ ListOk(q)
    /\ \A f \in {"search", "userId", "boardId"} : truthy(req[q].query, f)
    /\ \E i \in DOMAIN res[q].body.pins :
         /\ <<res[q].body.pins[i].user, 1>> # castObjectId(req[q].query.userId)
         /\ <<res[q].body.pins[i].board, 1>> # castObjectId(req[q].query.boardId)
    /\ ListOk(r)
    /\ ~truthy(req[r].query, "search")
    /\ truthy(req[r].query, "userId") /\ truthy(req[r].query, "boardId")
    /\ \E i \in DOMAIN res[r].body.pins :
         <<res[r].body.pins[i].board, 1>> # castObjectId(req[r].query.boardId)

\* getPostComments answered the request with a list.
CommentsOk(r) == Ok(r, "getPostComments")

\* addComment created a comment for the request.
Commented(r) == ctl[r] = "addComment" /\ pc[r] = "done" /\ res[r].status = 201

\* The _ids of the comments stored for the pin the request asked for, when
\* it read the store.
StoredFor(r) ==
  {after[r].Comment[i]._id :
     i \in {j \in DOMAIN after[r].Comment :
              <<after[r].Comment[j].pin, 1>> = castObjectId(req[r].params.postId)}}

\* The position of the comment with this _id in the response.
PositionIn(r, id) == CHOOSE i \in DOMAIN res[r].body : res[r].body[i]._id = id

\* C16: getPostComments returns exactly the comments stored for the pin,
\* each once, by creation time descending: of two comments created by
\* requests one after the other, the later comes first, so the comment
\* created last in a sequence of addComment requests is the first of the
\* response.
C16_NewestFirst ==
  \A r \in Reqs :
    CommentsOk(r) =>
      LET comments == res[r].body
      IN  /\ {comments[i]._id : i \in DOMAIN comments} = StoredFor(r)
          /\ Len(comments) = Cardinality(StoredFor(r))
          /\ \A i, j \in DOMAIN comments :
               i < j => comments[i].createdAt >= comments[j].createdAt
          /\ \A p, q \in Reqs :
               (/\ Commented(p) /\ Commented(q) /\ p \in doneBefore[q]
                /\ {res[p].body._id, res[q].body._id} \subseteq StoredFor(r))
                 => PositionIn(r, res[q].body._id) < PositionIn(r, res[p].body._id)
          /\ \A q \in Reqs :
               (Commented(q) /\ res[q].body._id \in StoredFor(r))
                 => \A i \in DOMAIN comments :
                      comments[i]._id \in 1..Len(SeedComments)
                        => PositionIn(r, res[q].body._id) < i

\* C16's case: two comments were added to pin 1, one after the other, and
\* the list of its three comments has been answered, newest first.
C16_Witness ==
  \E p, q, r \in Reqs :
    /\ Commented(p) /\ Commented(q) /\ p \in doneBefore[q]
    /\ CommentsOk(r) /\ Len(res[r].body) = 3
    /\ res[r].body[1]._id = res[q].body._id
    /\ res[r].body[2]._id = res[p].body._id
    /\ res[r].body[3]._id = 1

\* createPin computed the transformation for the request.
Transformed(r) == ctl[r] = "createPin" /\ "pre" \in DOMAIN loc[r]

\* The parsed canvasOptions and the uploaded file of the request.
CanvasOf(r) == req[r].body.canvasOptions.value
SourceOf(r) == req[r].files.media

\* canvasOptions.size is a ratio W:H and the source's width / height is
\* strictly greater than W / H.
WiderThanRatio(r) ==
  LET parts == split(CanvasOf(r).size, ":")
  IN  /\ CanvasOf(r).size # Original
      /\ Len(parts) = 2
      /\ isFinite(ToNumber(parts[1])) /\ isFinite(ToNumber(parts[2]))
      /\ ToNumber(parts[2])[1] > 0
      /\ SourceOf(r).width * ToNumber(parts[2])[1]
           > ToNumber(parts[1])[1] * SourceOf(r).height

\* canvasOptions.size is "original", the source is not higher than wide,
\* and the orientation asked for is portrait.
LandscapeToPortrait(r) ==
  /\ CanvasOf(r).size = Original
  /\ SourceOf(r).width >= SourceOf(r).height
  /\ "orientation" \in DOMAIN CanvasOf(r) /\ CanvasOf(r).orientation = "portrait"

\* C17: createPin selects the pad-resize crop mode exactly when the size
\* is a ratio W:H and the source's ratio is strictly greater than W/H, or
\* the size is "original", the source is landscape (a square source
\* included) and the orientation asked for is portrait; in every other
\* case it adds no crop mode.
C17_PadResize ==
  \A r \in Reqs :
    Transformed(r) =>
      /\ loc[r].pre.cm \in {",cm-pad_resize", ""}
      /\ loc[r].pre.cm = ",cm-pad_resize"
           <=> (WiderThanRatio(r) \/ LandscapeToPortrait(r))

\* C17's case: a square source on the original canvas in portrait got the
\* crop mode, and a source on a canvas of its own ratio got none.
C17_Witness ==
  \E q, r \in Reqs :
    /\ Transformed(q) /\ CanvasOf(q).size = Original
    /\ SourceOf(q).width = SourceOf(q).height
    /\ loc[q].pre.cm = ",cm-pad_resize"
    /\ Transformed(r) /\ CanvasOf(r).size = <<"4", ":", "3">>
    /\ SourceOf(r).width * 3 = 4 * SourceOf(r).height
    /\ loc[r].pre.cm = ""

\* The documents of the collection are still there, unchanged and in
\* their places, after the step.
Kept(collection, collectionAfter) ==
  /\ Len(collectionAfter) >= Len(collection)
  /\ SubSeq(collectionAfter, 1, Len(collection)) = collection

C19_FollowDistinct ==
  \A k \in DOMAIN Follow : Follow[k] > 0 => k[1] # k[2]

\* C20: no two User documents share a username, and no two share an email.
C20_UsersUnique ==
  \A i, j \in DOMAIN User :
    i # j => /\ User[i].username # User[j].username
             /\ User[i].email # User[j].email

\* The number of documents of the collection about the pin.
DocumentsOf(collection, pin) ==
  Cardinality({c \in (DOMAIN collection) \X (1..(MaxReqs + 1)) :
                 c[1][1] = pin /\ c[2] <= collection[c[1]]})

\* C21: interactionCheck, with the store answering, answers 200 with the
\* number of Like documents of the pin as likeCount; isLiked (isSaved) is
\* true exactly when the token cookie verifies and a Like (Save) document of
\* the token's user on the pin exists; the request changes no document.
C21_InteractionCheck ==
  \A r \in Reqs :
    (ctl[r] = "interactionCheck" /\ pc[r] = "done" /\ dbUp) =>
      LET pin == req[r].params.id
          mine == <<pin, req[r].cookies.userId>>
      IN  /\ res[r].status = 200
          /\ res[r].sent = 1
          /\ res[r].body.likeCount = DocumentsOf(Like, pin)
          /\ res[r].body.isLiked = (TokenVerifies(r) /\ BagCount(Like, mine) > 0)
          /\ res[r].body.isSaved = (TokenVerifies(r) /\ BagCount(Save, mine) > 0)
          /\ after[r] = before[r]

\* C21's case: alice's check of pin 1, which she liked and saved, has been
\* answered, and so has a check without a token or with a forged one.
C21_Witness ==
  \E r, q \in Reqs :
    /\ Ok(r, "interactionCheck") /\ Ok(q, "interactionCheck")
    /\ TokenVerifies(r) /\ res[r].body.isLiked /\ res[r].body.isSaved
    /\ res[r].body.likeCount = 1
    /\ ~TokenVerifies(q) /\ ~res[q].body.isLiked /\ res[q].body.likeCount = 1

\* Request r takes a step of createPin that writes to the store.
Writes(r) == pc'[r] # pc[r] /\ (Pin' # Pin \/ Board' # Board)

\* C22: in createPin no document is written before the upload has
\* succeeded; with a non-empty newBoard a Board with that title, owned by
\* the user of the token, is created in a step before the Pin's, and the Pin
\* references it even when a board id was supplied too; otherwise the Pin
\* references the supplied board id, or none; the Pin's user is the user of
\* the token, and the answer is 201 with the created pin.
C22_BoardThenPin ==
  [][\A r \in Reqs :
       LET body == req[r].body
           user == req[r].cookies.userId
           newPin == Pin'[Len(Pin')]
       IN  /\ Writes(r) => "result" \in DOMAIN loc'[r]
           /\ (Writes(r) /\ Board' # Board) =>
                /\ body.newBoard # ""
                /\ Pin' = Pin
                /\ Board' = Append(Board, [_id |-> Len(Board) + 1,
                                           title |-> body.newBoard, user |-> user])
                /\ loc'[r].newBoardId = Len(Board) + 1
           /\ (Writes(r) /\ Pin' # Pin) =>
                /\ Pin' = Append(Pin, newPin)
                /\ Board' = Board
                /\ newPin.user = user
                /\ newPin.board =
                     (IF "newBoard" \in DOMAIN body /\ body.newBoard # ""
                        THEN loc[r].newBoardId
                      ELSE IF "board" \in DOMAIN body THEN body.board ELSE 0)
                /\ ("newBoard" \in DOMAIN body /\ body.newBoard # "") =>
                     \E i \in DOMAIN Board :
                       Board[i] = [_id |-> newPin.board, title |-> body.newBoard,
                                   user |-> user]
                /\ res'[r].status = 201 /\ res'[r].body = newPin
                /\ pc'[r] = "done"]_vars

\* C22's case: a form with a newBoard and a board id has been answered 201
\* with a pin on the new board, and a form with an empty newBoard and a
\* board id with a pin on the board of that id.
C22_Witness ==
  \E q, r \in Reqs :
    /\ ctl[q] = "createPin" /\ pc[q] = "done" /\ res[q].status = 201
    /\ {"newBoard", "board"} \subseteq DOMAIN req[q].body
    /\ req[q].body.newBoard = "Food" /\ req[q].body.board = 1
    /\ res[q].body.board # 1
    /\ \E i \in DOMAIN Board : Board[i]._id = res[q].body.board /\ Board[i].title = "Food"
    /\ ctl[r] = "createPin" /\ pc[r] = "done" /\ res[r].status = 201
    /\ "newBoard" \in DOMAIN req[r].body /\ req[r].body.newBoard = ""
    /\ res[r].body.board = 1

\* The fraction x is the number n / d.
Equals(x, n, d) == isFinite(x) /\ d # 0 /\ x[1] * d = n * x[2]

\* The orientation of the uploaded file as createPin takes it: portrait
\* when it is higher than wide, landscape otherwise.
OrientationOf(r) ==
  IF SourceOf(r).width < SourceOf(r).height THEN "portrait" ELSE "landscape"

\* C23: the target width of createPin is the source width; the target
\* height is source width * H / W for a size "W:H", source width squared /
\* source height for the size "original" with an orientation other than the
\* source's, and not a number for the size "original" with the source's
\* orientation.
C23_TargetSize ==
  \A r \in Reqs :
    Transformed(r) =>
      LET canvas == CanvasOf(r)
          source == SourceOf(r)
          parts == split(canvas.size, ":")
      IN  /\ Equals(loc[r].pre.w, source.width, 1)
          /\ canvas.size # Original =>
               Equals(loc[r].pre.h, source.width * ToNumber(parts[2])[1],
                      ToNumber(parts[1])[1])
          /\ (canvas.size = Original /\ canvas.orientation # OrientationOf(r)) =>
               Equals(loc[r].pre.h, source.width * source.width, source.height)
          /\ (canvas.size = Original /\ canvas.orientation = OrientationOf(r)) =>
               ~isFinite(loc[r].pre.h)

\* C23's case: the transformation has been computed for a file on the
\* original canvas in its own orientation, and for a landscape file on the
\* original canvas in portrait.
C23_Witness ==
  \E q, r \in Reqs :
    /\ Transformed(q) /\ CanvasOf(q).size = Original
    /\ CanvasOf(q).orientation = OrientationOf(q)
    /\ ~isFinite(loc[q].pre.h)
    /\ Transformed(r) /\ CanvasOf(r).size = Original
    /\ SourceOf(r) = MediaFile /\ CanvasOf(r).orientation = "portrait"
    /\ Equals(loc[r].pre.h, 1600, 3)

\* The collections differ at most in the documents of the pair, and in
\* one of them.
OnlyPair(collection, collectionAfter, pair) ==
  /\ \A k \in (DOMAIN collection \cup DOMAIN collectionAfter) \ {pair} :
       BagCount(collectionAfter, k) = BagCount(collection, k)
  /\ BagCount(collectionAfter, pair) - BagCount(collection, pair) \in {-1, 0, 1}

\* C24: a step of an interact request of user u on pin p whose type is
\* exactly 'like' creates or deletes only Like documents of (p, u) and
\* leaves the Save documents as they are; with any other type, or none, it
\* creates or deletes only Save documents of (p, u) and leaves the Like
\* documents as they are; either is answered 200 while the store answers.
C24_InteractFrame ==
  [][\A r \in Reqs :
       (ctl[r] = "interact" /\ pc'[r] # pc[r]) =>
         LET pair == <<req[r].params.id, req[r].cookies.userId>>
             like == "type" \in DOMAIN req[r].body /\ req[r].body.type = "like"
         IN  /\ like => Save' = Save /\ OnlyPair(Like, Like', pair)
             /\ ~like => Like' = Like /\ OnlyPair(Save, Save', pair)
             /\ <<User', Follow', Pin', Board', Comment'>>
                  = <<User, Follow, Pin, Board, Comment>>
             /\ (pc'[r] = "done" /\ dbUp) => res'[r].status = 200]_vars

\* C24's case: a request of type 'share' and one without a type have been
\* answered 200, the first having created a Save document of its pair and
\* the second having deleted it again, and no Like document is stored.
C24_Witness ==
  \E q, r \in Reqs :
    /\ Ok(q, "interact") /\ "type" \in DOMAIN req[q].body /\ req[q].body.type = "share"
    /\ Ok(r, "interact") /\ "type" \notin DOMAIN req[r].body
    /\ InteractPair(q) = InteractPair(r)
    /\ BagCount(after[q].Save, InteractPair(q)) = 1
    /\ BagCount(after[r].Save, InteractPair(q)) = 0
    /\ Like = EmptyBag

\* registerUser or loginUser answered the request with a token cookie.
SessionOf(q) ==
  /\ ctl[q] \in {"registerUser", "loginUser"} /\ pc[q] = "done"
  /\ res[q].status \in {200, 201}

\* C25: sessions are stateless.  A step of logoutUser changes nothing on
\* the server and clears the cookie in its answer; and a request on a
\* guarded route that carries a token which registerUser or loginUser set
\* passes verifyToken with the userId of the user it was set for, in
\* whatever state it arrives, after a logout with that token too.
C25_Stateless ==
  [][\A r \in Reqs :
       /\ (ctl[r] = "logoutUser" /\ pc'[r] # pc[r]) =>
            /\ store' = store /\ dbUp' = dbUp
            /\ res'[r].status = 200 /\ res'[r].cookie = ClearedToken
       /\ \A q \in Reqs :
            (/\ SessionOf(q)
             /\ pc[r] = "idle" /\ pc'[r] # "idle"
             /\ req'[r].route \in GuardedRoutes
             /\ req'[r].cookies = res[q].cookie) =>
               /\ ctl'[r] = "interact" /\ pc'[r] = "interact"
               /\ req'[r].userId = res[q].body._id]_vars

\* C25's case: a user registered, logged out with the token of the
\* registration, and then liked a pin with that token.
C25_Witness ==
  \E q, l, r \in Reqs :
    /\ SessionOf(q) /\ ctl[q] = "registerUser"
    /\ ctl[l] = "logoutUser" /\ pc[l] = "done" /\ req[l].cookies = res[q].cookie
    /\ Ok(r, "interact") /\ req[r].cookies = res[q].cookie
    /\ l \in doneBefore[r]
    /\ req[r].userId = res[q].body._id
    /\ BagCount(Like, <<1, res[q].body._id>>) = 1

\* C26: when every operation on the store and every upload completes,
\* every request that getUser, interactionCheck or createPin handles is
\* eventually answered (here: unless the store has failed), whatever its
\* target and its token cookie.
C26_EventuallyAnswered ==
  \A r \in Reqs :
    (ctl[r] \in {"getUser", "interactionCheck", "createPin"})
      ~> (Answered(r) \/ ~dbUp)

\* The form of the request has the field, and it is not empty.
Filled(r, f) ==
  f \in DOMAIN req[r].body /\ Len(req[r].body[f]) > 0

\* C27: on POST /pins createPin is reached only by requests whose body has
\* non-empty title, description and media fields; the image it processes is
\* the uploaded file req.files.media, not the media field; so a request
\* with a valid token, a title, a description and an uploaded image but no
\* media field is answered 400 by the validation and creates no Pin and no
\* Board.
C27_MediaFieldRequired ==
  \A r \in Reqs :
    (pc[r] # "idle" /\ req[r].route = "POST /pins") =>
      /\ ctl[r] = "createPin" =>
           Filled(r, "title") /\ Filled(r, "description") /\ Filled(r, "media")
      /\ (ctl[r] = "createPin" /\ pc[r] = "done" /\ res[r].status = 201) =>
           /\ res[r].body.media = "/app-pinterest/" \o req[r].files.media.name
           /\ loc[r].pre.w = <<req[r].files.media.width, 1>>
      /\ (/\ TokenVerifies(r) /\ "media" \in DOMAIN req[r].files
          /\ Filled(r, "title") /\ Filled(r, "description")
          /\ "media" \notin DOMAIN req[r].body) =>
           /\ pc[r] = "done" /\ res[r].status = 400 /\ ctl[r] = ""
           /\ after[r].Pin = before[r].Pin /\ after[r].Board = before[r].Board

\* C27's case: a form with a title, a description and an image file but no
\* media field has been answered 400, and a form whose media field names
\* another file has been answered 201 with a pin of the uploaded file; the
\* store holds that pin only.
C27_Witness ==
  \E q, r \in Reqs :
    /\ req[q].route = "POST /pins" /\ TokenVerifies(q)
    /\ "media" \notin DOMAIN req[q].body /\ "media" \in DOMAIN req[q].files
    /\ Filled(q, "title") /\ Filled(q, "description")
    /\ pc[q] = "done" /\ res[q].status = 400
    /\ ctl[r] = "createPin" /\ pc[r] = "done" /\ res[r].status = 201
    /\ req[r].body.media = "dog.png"
    /\ res[r].body.media = "/app-pinterest/cat.png"
    /\ Len(Pin) = 1 /\ Board = <<>>

\* An interact request of the same kind (like, or save) on the pair of q.
SameToggle(s, q) ==
  /\ ctl[s] = "interact" /\ InteractPair(s) = InteractPair(q)
  /\ isLikeType(req[s].body) = isLikeType(req[q].body)

\* The interact request q found a matching document, deleted and was
\* answered 200, and every other request of its kind on its pair had been
\* answered before q arrived: none was in flight with q, none came since.
DeletedAlone(q) ==
  /\ Ok(q, "interact")
  /\ IF isLikeType(req[q].body) THEN loc[q].isLiked ELSE loc[q].isSaved
  /\ \A s \in Reqs \ {q} : SameToggle(s, q) => s \in doneBefore[q]

\* An interaction check of q's pin by q's user that was answered 200 and
\* arrived after q had been answered.
ChecksAfter(r, q) ==
  /\ Ok(r, "interactionCheck")
  /\ req[r].params.id = req[q].params.id
  /\ TokenVerifies(r) /\ req[r].cookies.userId = req[q].userId
  /\ q \in doneBefore[r]

\* C28: when an interact request observes an existing Like (Save) of its
\* pair and completes its delete with no other request on that pair in
\* flight, no Like (Save) document of the pair remains, and a following
\* interaction check by that user reports isLiked (isSaved) false; also in
\* states reached through concurrent toggles.
C28_DeleteLeavesNone ==
  \A q \in Reqs :
    DeletedAlone(q) =>
      IF isLikeType(req[q].body)
        THEN /\ BagCount(Like, InteractPair(q)) = 0
             /\ \A r \in Reqs : ChecksAfter(r, q) => ~res[r].body.isLiked
        ELSE /\ BagCount(Save, InteractPair(q)) = 0
             /\ \A r \in Reqs : ChecksAfter(r, q) => ~res[r].body.isSaved

\* C29: every interactionCheck response is consistent under any
\* interleaving with interact requests: whenever it reports isLiked true
\* its likeCount is at least 1.
C29_LikedIsCounted ==
  \A r \in Reqs :
    (Ok(r, "interactionCheck") /\ res[r].body.isLiked) => res[r].body.likeCount >= 1

\* The log entries written while handling request r.
LogOf(r) == registerUser_log(r) \o loginUser_log(r)

\* The entry shows the text: as a part of its message, as a field of its
\* data, or as a field of the body its data holds.
Shows(entry, text) ==
  \/ \E i \in DOMAIN entry.message : entry.message[i] = text
  \/ \E f \in DOMAIN entry.data \ {"_id", "body"} : entry.data[f] = text
  \/ /\ "body" \in DOMAIN entry.data
     /\ \E f \in DOMAIN entry.data.body : entry.data.body[f] = text

\* C30: no log entry written while handling a register or login request,
\* whether the request succeeds or fails, contains the plaintext password
\* sent in that request.
C30_PasswordNotLogged ==
  \A r \in Reqs :
    (ctl[r] \in {"registerUser", "loginUser"} /\ "password" \in DOMAIN req[r].body) =>
      \A i \in DOMAIN LogOf(r) : ~Shows(LogOf(r)[i], req[r].body.password)

====
